---- MODULE Spec2Model ----
(***************************************************************************)
(* javd: a codec for the JVM class-file format.                            *)
(*                                                                         *)
(* A byte buffer is a sequence of bytes (0..255).  A cursor is a buffer    *)
(* with a position, the number of bytes already consumed.  Every decode    *)
(* operator takes the buffer and the position and returns a record         *)
(*   [ok |-> TRUE,  val |-> the decoded value, pos |-> the new position]   *)
(*   [ok |-> FALSE, val |-> the kind of error, pos |-> the new position]   *)
(* Every encode operator returns the bytes it appends to the output.       *)
(*                                                                         *)
(* Values wider than 31 bits (Integer, Float, Long, Double constants, the  *)
(* magic number) are held as their big-endian bit pattern, a sequence of   *)
(* bytes: from_be_bytes / to_be_bytes are bijections on bit patterns.      *)
(***************************************************************************)
EXTENDS Integers, Sequences, FiniteSets, TLC

VARIABLES
  origin,       \* which case of the input catalogue `input` is
  input,        \* the bytes handed to JavaClass::deserialize
  eofSeeksEnd,  \* toolchain: a failed read_exact leaves the cursor at the end
                \* of the buffer (TRUE) or where it was (FALSE)
  overflowChecks, \* build: u16 addition panics on overflow (TRUE) or wraps
  hashSeed,     \* run: the order in which the pool's HashMap is iterated
  loop,         \* ConstantPool::deserialize run one iteration at a time
  pc,           \* position of the program
  consumed,     \* the cursor's position when the structural decode ended
  class,        \* the JavaClass under construction / returned
  next_attr,    \* resolution pass: number of attributes already visited
  output,       \* the bytes written by JavaClass::serialize
  again         \* the outcome of decoding `output` again

vars == <<origin, input, eofSeeksEnd, overflowChecks, hashSeed, loop, pc, consumed, class, next_attr, output, again>>

(***************************************************************************)
(* Primitive codec                                                         *)
(***************************************************************************)
Ok(v, p) == [ok |-> TRUE, val |-> v, pos |-> p]
Err(kind, p) == [ok |-> FALSE, val |-> kind, pos |-> p]
\* a panic (unwrap of None, arithmetic overflow): the program aborts
Panic(p) == [ok |-> FALSE, val |-> "panic", pos |-> p]
IsPanic(r) == ~r.ok /\ r.val = "panic"

\* `let x = v;`: v is computed once, and the rest of the function uses x
Bind(v, F(_)) == CHOOSE y \in {F(x) : x \in {v}} : TRUE

\* the `?` operator on Result<_, Error>, as in deserialization.rs 78 and 82:
\* an Err ends the function and is returned, an Ok value goes on to the rest
\* of the function
Try(r, F(_)) == CHOOSE y \in {IF x.ok THEN F(x) ELSE x : x \in {r}} : TRUE

\* faulty variant: a short read leaves the rest of the destination zeroed
read_exact_zero_fill(b, p, n) ==
  IF p + n <= Len(b)
  THEN Ok(SubSeq(b, p + 1, p + n), p + n)
  ELSE Ok(SubSeq(b, p + 1, Len(b)) \o [i \in 1..(p + n - Len(b)) |-> 0], Len(b))

\* Cursor::read_exact on a buffer b at position p, for n bytes.
read_exact(b, p, n) ==
  IF p + n <= Len(b)
  THEN Ok(SubSeq(b, p + 1, p + n), p + n)
  ELSE Err("UnexpectedEof", IF eofSeeksEnd THEN Len(b) ELSE p)

\* [u8; C]::deserialize
Array_deserialize(b, p, C) == read_exact(b, p, C)

u8_deserialize(b, p) ==
  LET r == Array_deserialize(b, p, 1)
  IN  IF r.ok THEN Ok(r.val[1], r.pos) ELSE r

u16_deserialize(b, p) ==
  LET r == Array_deserialize(b, p, 2)
  IN  IF r.ok THEN Ok(r.val[1] * 256 + r.val[2], r.pos) ELSE r

\* A u32 is read as a length only.  A value of 2^31 or more exceeds every
\* buffer of the model; it is held as HugeLen, which no buffer can satisfy.
HugeLen == 2147483647

u32_deserialize(b, p) ==
  LET r == Array_deserialize(b, p, 4)
  IN  IF ~r.ok THEN r
      ELSE IF r.val[1] >= 128 THEN Ok(HugeLen, r.pos)
      ELSE Ok(((r.val[1] * 256 + r.val[2]) * 256 + r.val[3]) * 256 + r.val[4], r.pos)

\* 32- and 64-bit numbers kept as bit patterns: i32, f32, u32 (magic), i64, f64
bits32_deserialize(b, p) == Array_deserialize(b, p, 4)
bits64_deserialize(b, p) == Array_deserialize(b, p, 8)

\* read_exact into vec![0u8; size]
read_bytes(b, p, size) ==
  IF size = HugeLen
  THEN Err("UnexpectedEof", IF eofSeeksEnd THEN Len(b) ELSE p)
  ELSE read_exact(b, p, size)

u8_serialize(v) == <<v>>
u16_serialize(v) == <<v \div 256, v % 256>>
\* v < 2^31 for every length the model can build
u32_serialize(v) ==
  <<v \div 16777216, (v \div 65536) % 256, (v \div 256) % 256, v % 256>>
bits_serialize(v) == v

\* `len as u16`
as_u16(n) == n % 65536

(***************************************************************************)
(* CPIndex, ReferenceKind                                                  *)
(***************************************************************************)
\* faulty variant: 0 is taken as an index
CPIndex_try_from_any(v) == [ok |-> TRUE, val |-> v]

\* faulty variant: the value is taken as a signed 16-bit number
CPIndex_try_from_signed(v) ==
  IF v = 0 \/ v >= 32768 THEN [ok |-> FALSE] ELSE [ok |-> TRUE, val |-> v]

\* impl TryFrom<u16> for CPIndex
CPIndex_try_from(v) == IF v = 0 THEN [ok |-> FALSE] ELSE [ok |-> TRUE, val |-> v]

CPIndex_deserialize(b, p) ==
  Try(u16_deserialize(b, p), LAMBDA r:
    IF CPIndex_try_from(r.val).ok THEN Ok(CPIndex_try_from(r.val).val, r.pos)
    ELSE Err("Other: CPIndex is 0", r.pos))

CPIndex_serialize(i) == u16_serialize(i)

\* faulty variant: the kinds are numbered from 0
ReferenceKind_try_from_zero_based(v) ==
  IF v \in {0, 1, 2, 3, 4, 5, 6, 7, 8, 9} THEN [ok |-> TRUE, val |-> v] ELSE [ok |-> FALSE]

\* impl TryFrom<u8> for ReferenceKind: GetField = 1 .. InvokeInterface = 9
ReferenceKind_try_from(v) ==
  IF v \in {1, 2, 3, 4, 5, 6, 7, 8, 9} THEN [ok |-> TRUE, val |-> v] ELSE [ok |-> FALSE]

ReferenceKind_deserialize(b, p) ==
  Try(u8_deserialize(b, p), LAMBDA r:
    IF ReferenceKind_try_from(r.val).ok THEN Ok(r.val, r.pos)
    ELSE Err("Other: ReferenceKind", r.pos))

ReferenceKind_serialize(k) == u8_serialize(k)

(***************************************************************************)
(* String::from_utf8_lossy: valid UTF-8 sequences are kept, every maximal  *)
(* invalid prefix of a sequence becomes U+FFFD (EF BF BD).                 *)
(***************************************************************************)
IsCont(c) == c >= 128 /\ c <= 191
ByteAt(s, i) == IF i <= Len(s) THEN s[i] ELSE 0

utf8_char_width(b) ==
  IF b >= 194 /\ b <= 223 THEN 2
  ELSE IF b >= 224 /\ b <= 239 THEN 3
  ELSE IF b >= 240 /\ b <= 244 THEN 4
  ELSE 0

Second3(b, c) ==
  \/ b = 224 /\ c >= 160 /\ c <= 191
  \/ b >= 225 /\ b <= 236 /\ IsCont(c)
  \/ b = 237 /\ c >= 128 /\ c <= 159
  \/ b >= 238 /\ b <= 239 /\ IsCont(c)

Second4(b, c) ==
  \/ b = 240 /\ c >= 144 /\ c <= 191
  \/ b >= 241 /\ b <= 243 /\ IsCont(c)
  \/ b = 244 /\ c >= 128 /\ c <= 143

\* the chunk starting at s[i]: whether it is valid, and its length
Utf8Chunk(s, i) ==
  LET b == s[i]
      w == utf8_char_width(b)
  IN  IF b < 128 THEN [valid |-> TRUE, n |-> 1]
      ELSE IF w = 2 THEN
        IF IsCont(ByteAt(s, i + 1)) THEN [valid |-> TRUE, n |-> 2]
        ELSE [valid |-> FALSE, n |-> 1]
      ELSE IF w = 3 THEN
        IF ~Second3(b, ByteAt(s, i + 1)) THEN [valid |-> FALSE, n |-> 1]
        ELSE IF ~IsCont(ByteAt(s, i + 2)) THEN [valid |-> FALSE, n |-> 2]
        ELSE [valid |-> TRUE, n |-> 3]
      ELSE IF w = 4 THEN
        IF ~Second4(b, ByteAt(s, i + 1)) THEN [valid |-> FALSE, n |-> 1]
        ELSE IF ~IsCont(ByteAt(s, i + 2)) THEN [valid |-> FALSE, n |-> 2]
        ELSE IF ~IsCont(ByteAt(s, i + 3)) THEN [valid |-> FALSE, n |-> 3]
        ELSE [valid |-> TRUE, n |-> 4]
      ELSE [valid |-> FALSE, n |-> 1]

REPLACEMENT == <<239, 191, 189>>

RECURSIVE Utf8Scan(_, _, _)
Utf8Scan(s, i, hi) ==
  IF i > hi THEN <<>>
  ELSE Bind(Utf8Chunk(s, i), LAMBDA c :
         (IF c.valid THEN SubSeq(s, i, i + c.n - 1) ELSE REPLACEMENT)
           \o Bind(i + c.n, LAMBDA next : Utf8Scan(s, next, hi)))

\* A chunk always starts at a byte that is not a continuation byte, and at
\* the fourth of four continuation bytes: the scan is cut there, so that
\* long strings are scanned in pieces.
ChunkStart(s, m) ==
  IF ~IsCont(s[m]) THEN m
  ELSE IF ~IsCont(s[m + 1]) THEN m + 1
  ELSE IF ~IsCont(s[m + 2]) THEN m + 2
  ELSE m + 3

ScanPiece == 8

RECURSIVE Utf8Pieces(_, _, _)
Utf8Pieces(s, lo, hi) ==
  IF hi - lo < ScanPiece THEN Utf8Scan(s, lo, hi)
  ELSE Bind(ChunkStart(s, (lo + hi) \div 2), LAMBDA m :
         Utf8Pieces(s, lo, m - 1) \o Utf8Pieces(s, m, hi))

from_utf8_lossy(s) == Utf8Pieces(s, 1, Len(s))

(***************************************************************************)
(* ConstantPoolEntry: [tag, idx, raw]                                      *)
(*   idx: the index operands in declaration order (for MethodHandle the    *)
(*        reference kind then the index, for InvokeDynamic the raw u16     *)
(*        then the index); raw: the text of a Utf8 entry or the bit        *)
(*        pattern of a number.                                             *)
(***************************************************************************)
Entry(tag, idx, raw) == [tag |-> tag, idx |-> idx, raw |-> raw]

\* one CPIndex operand; two CPIndex operands
OneIndex(tag, b, p) ==
  Try(CPIndex_deserialize(b, p), LAMBDA a: Ok(Entry(tag, <<a.val>>, <<>>), a.pos))

TwoIndex(tag, b, p) ==
  Try(CPIndex_deserialize(b, p), LAMBDA a:
  Try(CPIndex_deserialize(b, a.pos), LAMBDA c:
    Ok(Entry(tag, <<a.val, c.val>>, <<>>), c.pos)))

Number(tag, r) == Try(r, LAMBDA n: Ok(Entry(tag, <<>>, n.val), n.pos))

ConstantPoolEntry_deserialize(b, p) ==
  Try(u8_deserialize(b, p), LAMBDA t:
    LET tag == t.val
        q == t.pos
    IN  IF tag = 7 THEN OneIndex(7, b, q)
        ELSE IF tag = 9 THEN TwoIndex(9, b, q)
        ELSE IF tag = 10 THEN TwoIndex(10, b, q)
        ELSE IF tag = 11 THEN TwoIndex(11, b, q)
        ELSE IF tag = 8 THEN OneIndex(8, b, q)
        ELSE IF tag = 3 THEN Number(3, bits32_deserialize(b, q))
        ELSE IF tag = 4 THEN Number(4, bits32_deserialize(b, q))
        ELSE IF tag = 5 THEN Number(5, bits64_deserialize(b, q))
        ELSE IF tag = 6 THEN Number(6, bits64_deserialize(b, q))
        ELSE IF tag = 12 THEN TwoIndex(12, b, q)
        ELSE IF tag = 1 THEN
          Try(u16_deserialize(b, q), LAMBDA len:
          Try(read_bytes(b, len.pos, len.val), LAMBDA buf:
            Ok(Entry(1, <<>>, from_utf8_lossy(buf.val)), buf.pos)))
        ELSE IF tag = 15 THEN
          Try(ReferenceKind_deserialize(b, q), LAMBDA k:
          Try(CPIndex_deserialize(b, k.pos), LAMBDA i:
            Ok(Entry(15, <<k.val, i.val>>, <<>>), i.pos)))
        ELSE IF tag = 16 THEN OneIndex(16, b, q)
        ELSE IF tag = 18 THEN
          Try(u16_deserialize(b, q), LAMBDA m:
          Try(CPIndex_deserialize(b, m.pos), LAMBDA i:
            Ok(Entry(18, <<m.val, i.val>>, <<>>), i.pos)))
        ELSE Err("Other: unknown tag", q))

\* faulty variant: every entry takes one slot
ConstantPoolEntry_size_always_one(e) == 1

\* faulty variant: every entry takes two slots
ConstantPoolEntry_size_always_two(e) == 2

\* ConstantPoolEntry::size
ConstantPoolEntry_size(e) == IF e.tag = 5 \/ e.tag = 6 THEN 2 ELSE 1

ConstantPoolEntry_serialize(e) ==
  IF e.tag \in {7, 8, 16} THEN u8_serialize(e.tag) \o CPIndex_serialize(e.idx[1])
  ELSE IF e.tag \in {9, 10, 11, 12} THEN
    u8_serialize(e.tag) \o CPIndex_serialize(e.idx[1]) \o CPIndex_serialize(e.idx[2])
  ELSE IF e.tag \in {3, 4, 5, 6} THEN u8_serialize(e.tag) \o bits_serialize(e.raw)
  ELSE IF e.tag = 1 THEN
    u8_serialize(1) \o u16_serialize(as_u16(Len(e.raw))) \o e.raw
  ELSE IF e.tag = 15 THEN
    u8_serialize(15) \o ReferenceKind_serialize(e.idx[1]) \o CPIndex_serialize(e.idx[2])
  ELSE \* InvokeDynamic
    u8_serialize(18) \o u16_serialize(e.idx[1]) \o CPIndex_serialize(e.idx[2])

(***************************************************************************)
(* ConstantPool: a function from the populated indices to the entries      *)
(***************************************************************************)
U16_MAX == 65535

RECURSIVE ConstantPool_loop(_, _, _, _, _)
ConstantPool_loop(b, p, count, index, map) ==
  IF ~(index < count) THEN Ok(map, p)
  ELSE Try(ConstantPoolEntry_deserialize(b, p), LAMBDA entry:
         IF ~CPIndex_try_from(index).ok THEN Panic(entry.pos)  \* unwrap
         ELSE LET size == ConstantPoolEntry_size(entry.val)
                  inserted == (index :> entry.val) @@ map
              IN  IF index + size > U16_MAX
                  THEN IF overflowChecks THEN Panic(entry.pos)
                       ELSE ConstantPool_loop(b, entry.pos, count,
                                              (index + size) % (U16_MAX + 1), inserted)
                  ELSE ConstantPool_loop(b, entry.pos, count, index + size, inserted))

ConstantPool_deserialize(b, p) ==
  Try(u16_deserialize(b, p), LAMBDA count:
    ConstantPool_loop(b, count.pos, count.val, 1, <<>>))

RECURSIVE SumSizes(_, _)
SumSizes(cp, keys) ==
  IF keys = {} THEN 0
  ELSE Bind(CHOOSE k \in keys : TRUE, LAMBDA k :
         ConstantPoolEntry_size(cp[k]) + Bind(keys \ {k}, LAMBDA rest : SumSizes(cp, rest)))

\* ConstantPool::size: the sum of the entries' widths, plus 1
ConstantPool_size(cp) == as_u16(SumSizes(cp, DOMAIN cp) + 1)

\* the keys of the map, enumerated in ascending order: the reference from
\* which the orders of iteration below are derived
RECURSIVE SortedKeys(_)
SortedKeys(keys) ==
  IF keys = {} THEN <<>>
  ELSE Bind(CHOOSE k \in keys : \A j \in keys : k <= j, LAMBDA k :
         <<k>> \o Bind(keys \ {k}, LAMBDA rest : SortedKeys(rest)))

\* HashMap::iter: the order is not specified and differs from run to run;
\* here ascending, descending, or the even keys before the odd ones
HashSeeds == {0, 1, 2}
IsEven(k) == k % 2 = 0
IsOdd(k) == k % 2 = 1
Reverse(seq) == [i \in 1..Len(seq) |-> seq[Len(seq) + 1 - i]]
HashMap_iter(cp) ==
  IF hashSeed = 0 THEN SortedKeys(DOMAIN cp)
  ELSE IF hashSeed = 1 THEN Reverse(SortedKeys(DOMAIN cp))
  ELSE SelectSeq(SortedKeys(DOMAIN cp), IsEven) \o SelectSeq(SortedKeys(DOMAIN cp), IsOdd)

\* faulty variant: the entries are written in the order of the iteration
sort_by_nothing(entries) == entries

\* entries.sort_by(|(a, _), (b, _)| a.cmp(&b)), on the keys
RECURSIVE sort_by(_)
sort_by(entries) ==
  IF entries = <<>> THEN <<>>
  ELSE Bind(sort_by(Tail(entries)), LAMBDA rest :
         SelectSeq(rest, LAMBDA j : j < Head(entries)) \o <<Head(entries)>>
           \o SelectSeq(rest, LAMBDA j : j >= Head(entries)))

RECURSIVE SerializeEntries(_, _)
SerializeEntries(cp, order) ==
  IF order = <<>> THEN <<>>
  ELSE ConstantPoolEntry_serialize(cp[Head(order)]) \o SerializeEntries(cp, Tail(order))

ConstantPool_serialize(cp) ==
  u16_serialize(ConstantPool_size(cp)) \o SerializeEntries(cp, sort_by(HashMap_iter(cp)))

(***************************************************************************)
(* AccessFlags                                                             *)
(***************************************************************************)
\* the declared flags, PUBLIC .. ENUM (SYNCHRONIZED, BRIDGE and VARARGS
\* share the bits of SUPER, VOLATILE and TRANSIENT)
DeclaredFlags ==
  {1, 2, 4, 8, 16, 32, 32, 64, 64, 128, 128, 256, 512, 1024, 2048, 4096, 8192, 16384}

Bit(v, k) == (v \div (2 ^ k)) % 2

\* faulty variant: from_bits_truncate, the unknown bits are dropped
AccessFlags_from_bits_truncate(v) == [ok |-> TRUE, val |-> v % 32768]

\* AccessFlags::from_bits: None when a bit outside all() is set
AccessFlags_from_bits(v) ==
  IF \A k \in 0..15 : Bit(v, k) = 1 => \E f \in DeclaredFlags : Bit(f, k) = 1
  THEN [ok |-> TRUE, val |-> v]
  ELSE [ok |-> FALSE]

AccessFlags_deserialize(b, p) ==
  Try(u16_deserialize(b, p), LAMBDA r:
    IF AccessFlags_from_bits(r.val).ok THEN Ok(r.val, r.pos)
    ELSE Err("Other: AccessFlags", r.pos))

AccessFlags_serialize(bits) == u16_serialize(bits)

(***************************************************************************)
(* Attribute = [name_index, info]; info is                                 *)
(*   [kind |-> "Any", blob]                                                *)
(*   [kind |-> "ConstantValue", index]                                     *)
(*   [kind |-> "Code", max_stack, max_locals, code, exception_table,       *)
(*                     attributes]                                         *)
(*   [kind |-> "Exceptions", exception_index_table]                        *)
(***************************************************************************)
AnyInfo(blob) == [kind |-> "Any", blob |-> blob]

AttributeInfo_deserialize(b, p) ==
  Try(u32_deserialize(b, p), LAMBDA size:
  Try(read_bytes(b, size.pos, size.val), LAMBDA buf:
    Ok(AnyInfo(buf.val), buf.pos)))

Attribute_deserialize(b, p) ==
  Try(CPIndex_deserialize(b, p), LAMBDA name_index:
  Try(AttributeInfo_deserialize(b, name_index.pos), LAMBDA info:
    Ok([name_index |-> name_index.val, info |-> info.val], info.pos)))

\* faulty variant: the catch type is read as a plain u16, 0 included
ExceptionTableEntry_deserialize_any_catch(b, p) ==
  Try(u16_deserialize(b, p), LAMBDA start:
  Try(u16_deserialize(b, start.pos), LAMBDA end:
  Try(u16_deserialize(b, end.pos), LAMBDA handler:
  Try(u16_deserialize(b, handler.pos), LAMBDA catch_type:
    Ok([start |-> start.val, end |-> end.val, handler |-> handler.val,
        catch_type |-> catch_type.val], catch_type.pos)))))

ExceptionTableEntry_deserialize(b, p) ==
  Try(u16_deserialize(b, p), LAMBDA start:
  Try(u16_deserialize(b, start.pos), LAMBDA end:
  Try(u16_deserialize(b, end.pos), LAMBDA handler:
  Try(CPIndex_deserialize(b, handler.pos), LAMBDA catch_type:
    Ok([start |-> start.val, end |-> end.val, handler |-> handler.val,
        catch_type |-> catch_type.val], catch_type.pos)))))

CodeByte_deserialize(b, p) == u8_deserialize(b, p)

(***************************************************************************)
(* Vec<T>, Field, Method                                                   *)
(***************************************************************************)
RECURSIVE deserialize_vec(_, _, _, _)

\* Vec<T>::deserialize: a 16-bit count, then that many elements
Vec_deserialize(T, b, p) ==
  Try(u16_deserialize(b, p), LAMBDA count: deserialize_vec(T, b, count.pos, count.val))

\* Field::deserialize and Method::deserialize (the same shape)
Member_deserialize(b, p) ==
  Try(AccessFlags_deserialize(b, p), LAMBDA access_flags:
  Try(CPIndex_deserialize(b, access_flags.pos), LAMBDA name_index:
  Try(CPIndex_deserialize(b, name_index.pos), LAMBDA descriptor_index:
  Try(Vec_deserialize("Attribute", b, descriptor_index.pos), LAMBDA attributes:
    Ok([access_flags |-> access_flags.val, name_index |-> name_index.val,
        descriptor_index |-> descriptor_index.val,
        attributes |-> attributes.val], attributes.pos)))))

Field_deserialize(b, p) == Member_deserialize(b, p)
Method_deserialize(b, p) == Member_deserialize(b, p)

\* T::deserialize for the element types of the vectors
T_deserialize(T, b, p) ==
  CASE T = "CPIndex" -> CPIndex_deserialize(b, p)
    [] T = "Field" -> Field_deserialize(b, p)
    [] T = "Method" -> Method_deserialize(b, p)
    [] T = "Attribute" -> Attribute_deserialize(b, p)
    [] T = "ExceptionTableEntry" -> ExceptionTableEntry_deserialize(b, p)
    [] T = "CodeByte" -> CodeByte_deserialize(b, p)

\* faulty variant: each element is stored in front of the earlier ones
RECURSIVE vec_loop_prepend(_, _, _, _, _)
vec_loop_prepend(T, b, p, left, res) ==
  IF left = 0 THEN Ok(res, p)
  ELSE Try(T_deserialize(T, b, p), LAMBDA x:
         vec_loop_prepend(T, b, x.pos, left - 1, <<x.val>> \o res))

\* for _ in 0..count { res.push(T::deserialize(bytes)?) }
RECURSIVE vec_loop(_, _, _, _, _)
vec_loop(T, b, p, left, res) ==
  IF left = 0 THEN Ok(res, p)
  ELSE Try(T_deserialize(T, b, p), LAMBDA x:
         vec_loop(T, b, x.pos, left - 1, Append(res, x.val)))

\* a count of HugeLen cannot be satisfied by any buffer of the model
deserialize_vec(T, b, p, count) ==
  IF count = HugeLen
  THEN Err("UnexpectedEof", IF eofSeeksEnd THEN Len(b) ELSE p)
  ELSE vec_loop(T, b, p, count, <<>>)

(***************************************************************************)
(* Attribute::resolve                                                      *)
(***************************************************************************)
\* "ConstantValue", "Code", "Exceptions" as UTF-8 text
NAME_ConstantValue == <<67, 111, 110, 115, 116, 97, 110, 116, 86, 97, 108, 117, 101>>
NAME_Code == <<67, 111, 100, 101>>
NAME_Exceptions == <<69, 120, 99, 101, 112, 116, 105, 111, 110, 115>>

Resolved(status, a) == [status |-> status, attr |-> a]

\* the `?` operator inside Attribute::resolve (main.rs 464-500): Err is
\* returned before self.info is assigned, the attribute is as it was
TryResolve(r, a, F(_)) ==
  CHOOSE y \in {IF x.ok THEN F(x) ELSE Resolved("err", a) : x \in {r}} : TRUE

RECURSIVE Attribute_resolve(_, _)

\* faulty variant: the nested attributes are left as they were decoded
resolve_each_skipped(attributes, cp, done) == [status |-> "ok", attrs |-> attributes]

\* for a in attributes.iter_mut() { let _ = a.resolve(cp); }
\* an error is dropped, a panic unwinds through the loop
RECURSIVE resolve_each(_, _, _)
RECURSIVE resolve_rest(_, _, _, _)
resolve_each(attributes, cp, done) ==
  IF attributes = <<>> THEN [status |-> "ok", attrs |-> done]
  ELSE Bind(Attribute_resolve(Head(attributes), cp),
            LAMBDA r : resolve_rest(attributes, cp, done, r))

resolve_rest(attributes, cp, done, r) ==
  IF r.status = "panic" THEN [status |-> "panic", attrs |-> done \o attributes]
  ELSE Bind(Append(done, r.attr), LAMBDA so_far : resolve_each(Tail(attributes), cp, so_far))

\* faulty variant: a nested attribute that stays opaque fails the "Code" too
resolve_Code_nested_strict(a, max_stack, max_locals, code, exception_table, nested) ==
  IF nested.status = "panic" THEN Resolved("panic", a)
  ELSE IF \E j \in DOMAIN nested.attrs : nested.attrs[j].info.kind = "Any"
  THEN Resolved("err", a)
  ELSE Resolved("ok",
         [a EXCEPT !.info =
            [kind |-> "Code", max_stack |-> max_stack, max_locals |-> max_locals,
             code |-> code, exception_table |-> exception_table,
             attributes |-> nested.attrs]])

\* the "Code" arm: the nested attributes are resolved, then the info is replaced
resolve_Code_nested(a, max_stack, max_locals, code, exception_table, nested) ==
  IF nested.status = "panic" THEN Resolved("panic", a)
  ELSE Resolved("ok",
         [a EXCEPT !.info =
            [kind |-> "Code", max_stack |-> max_stack, max_locals |-> max_locals,
             code |-> code, exception_table |-> exception_table,
             attributes |-> nested.attrs]])

resolve_Code(a, cp, bytes) ==
  TryResolve(u16_deserialize(bytes, 0), a, LAMBDA max_stack:
  TryResolve(u16_deserialize(bytes, max_stack.pos), a, LAMBDA max_locals:
  TryResolve(u32_deserialize(bytes, max_locals.pos), a, LAMBDA code_length:
  TryResolve(deserialize_vec("CodeByte", bytes, code_length.pos, code_length.val), a,
             LAMBDA code:
  TryResolve(Vec_deserialize("ExceptionTableEntry", bytes, code.pos), a,
             LAMBDA exception_table:
  TryResolve(Vec_deserialize("Attribute", bytes, exception_table.pos), a,
             LAMBDA attributes:
    resolve_Code_nested(a, max_stack.val, max_locals.val, code.val,
                        exception_table.val,
                        resolve_each(attributes.val, cp, <<>>))))))))

\* faulty variant: only the first attribute of the pass is looked at (and
\* only for "ConstantValue"), every later one is rejected
Attribute_resolve_first_only(a, cp) ==
  IF next_attr = 0 /\ a.info.kind = "Any" /\ a.name_index \in DOMAIN cp
     /\ cp[a.name_index] = Entry(1, <<>>, NAME_ConstantValue)
     /\ CPIndex_deserialize(a.info.blob, 0).ok
  THEN Resolved("ok", [a EXCEPT !.info = [kind |-> "ConstantValue",
                                          index |-> CPIndex_deserialize(a.info.blob, 0).val]])
  ELSE Resolved("err", a)

Attribute_resolve(a, cp) ==
  IF a.info.kind # "Any" THEN Resolved("ok", a)          \* already resolved
  ELSE IF a.name_index \notin DOMAIN cp
       THEN Resolved("panic", a)                         \* cp[index]: unwrap of None
  ELSE IF cp[a.name_index].tag # 1 THEN Resolved("err", a)
  ELSE LET name == cp[a.name_index].raw
           bytes == a.info.blob
       IN  IF name = NAME_ConstantValue THEN
             TryResolve(CPIndex_deserialize(bytes, 0), a, LAMBDA index:
               Resolved("ok",
                 [a EXCEPT !.info = [kind |-> "ConstantValue", index |-> index.val]]))
           ELSE IF name = NAME_Code THEN resolve_Code(a, cp, bytes)
           ELSE IF name = NAME_Exceptions THEN
             TryResolve(Vec_deserialize("CPIndex", bytes, 0), a, LAMBDA table:
               Resolved("ok",
                 [a EXCEPT !.info = [kind |-> "Exceptions",
                                     exception_index_table |-> table.val]]))
           ELSE Resolved("err", a)                       \* unknown attribute

(***************************************************************************)
(* Serializer                                                              *)
(***************************************************************************)
RECURSIVE Vec_serialize(_, _)

ExceptionTableEntry_serialize(e) ==
  u16_serialize(e.start) \o u16_serialize(e.end) \o u16_serialize(e.handler)
    \o CPIndex_serialize(e.catch_type)

CodeByte_serialize(c) == u8_serialize(c)

RECURSIVE serialize_each(_, _)

AttributeInfo_serialize(info) ==
  IF info.kind = "Any" THEN info.blob
  ELSE IF info.kind = "Code" THEN
    u16_serialize(info.max_stack) \o u16_serialize(info.max_locals)
      \o u32_serialize(Len(info.code)) \o serialize_each("CodeByte", info.code)
      \o Vec_serialize("ExceptionTableEntry", info.exception_table)
      \o Vec_serialize("Attribute", info.attributes)
  ELSE IF info.kind = "Exceptions" THEN Vec_serialize("CPIndex", info.exception_index_table)
  ELSE CPIndex_serialize(info.index)

\* faulty variant: the length of a "Code" leaves out its nested attributes
Attribute_serialize_shallow_length(a) ==
  LET buf == AttributeInfo_serialize(a.info)
      n == IF a.info.kind = "Code"
           THEN Len(buf) - Len(serialize_each("Attribute", a.info.attributes))
           ELSE Len(buf)
  IN  CPIndex_serialize(a.name_index) \o u32_serialize(n) \o buf

\* faulty variant: the length of the body is written on 16 bits
Attribute_serialize_short_length(a) ==
  LET buf == AttributeInfo_serialize(a.info)
  IN  CPIndex_serialize(a.name_index) \o u16_serialize(as_u16(Len(buf))) \o buf

Attribute_serialize(a) ==
  LET buf == AttributeInfo_serialize(a.info)
  IN  CPIndex_serialize(a.name_index) \o u32_serialize(Len(buf)) \o buf

Member_serialize(m) ==
  AccessFlags_serialize(m.access_flags) \o CPIndex_serialize(m.name_index)
    \o CPIndex_serialize(m.descriptor_index) \o Vec_serialize("Attribute", m.attributes)

Field_serialize(f) == Member_serialize(f)
Method_serialize(m) == Member_serialize(m)

T_serialize(T, x) ==
  CASE T = "CPIndex" -> CPIndex_serialize(x)
    [] T = "Field" -> Field_serialize(x)
    [] T = "Method" -> Method_serialize(x)
    [] T = "Attribute" -> Attribute_serialize(x)
    [] T = "ExceptionTableEntry" -> ExceptionTableEntry_serialize(x)
    [] T = "CodeByte" -> CodeByte_serialize(x)

serialize_each(T, v) ==
  IF v = <<>> THEN <<>> ELSE T_serialize(T, Head(v)) \o serialize_each(T, Tail(v))

\* Vec<T>::serialize: `len as u16`, then every element
Vec_serialize(T, v) == u16_serialize(as_u16(Len(v))) \o serialize_each(T, v)

\* Option<CPIndex> is <<>> (None) or <<i>> (Some(i))
None == <<>>
Some(i) == <<i>>
\* faulty variant: an absent index is written as 0xFFFF
unwrap_or_all_ones(o, d) == IF o = None THEN 65535 ELSE o[1]
unwrap_or(o, d) == IF o = None THEN d ELSE o[1]

\* HashMap::get through Deref: the lookup that reports a missing entry
ConstantPool_get(cp, index) == IF index \in DOMAIN cp THEN Some(cp[index]) ELSE None

\* DisplayCP::fmt: "(NONE)" for an index with no entry, else the entry's text
\* (held as the entry itself)
DisplayCP_fmt(index, cp) ==
  IF ConstantPool_get(cp, index) = None THEN "(NONE)" ELSE ConstantPool_get(cp, index)[1]

JavaClass_serialize(c) ==
  bits_serialize(c.magic_bytes) \o u16_serialize(c.minor_version)
    \o u16_serialize(c.major_version) \o ConstantPool_serialize(c.constant_pool)
    \o AccessFlags_serialize(c.access_flags) \o CPIndex_serialize(c.this_class)
    \o CPIndex_serialize(unwrap_or(c.super_class, 0))
    \o Vec_serialize("CPIndex", c.interfaces) \o Vec_serialize("Field", c.fields)
    \o Vec_serialize("Method", c.methods) \o Vec_serialize("Attribute", c.attributes)

(***************************************************************************)
(* JavaClass::deserialize                                                  *)
(***************************************************************************)
\* Result::ok on the super-class read: any error becomes None
super_class_ok(r) == IF r.ok THEN Some(r.val) ELSE None

\* the structural decode, up to the class attributes
JavaClass_structure(b) ==
  Try(bits32_deserialize(b, 0), LAMBDA magic_bytes:
  Try(u16_deserialize(b, magic_bytes.pos), LAMBDA minor_version:
  Try(u16_deserialize(b, minor_version.pos), LAMBDA major_version:
  Try(ConstantPool_deserialize(b, major_version.pos), LAMBDA constant_pool:
  Try(AccessFlags_deserialize(b, constant_pool.pos), LAMBDA access_flags:
  Try(CPIndex_deserialize(b, access_flags.pos), LAMBDA this_class:
  Bind(CPIndex_deserialize(b, this_class.pos), LAMBDA super_class :
  Try(Vec_deserialize("CPIndex", b, super_class.pos), LAMBDA interfaces:
  Try(Vec_deserialize("Field", b, interfaces.pos), LAMBDA fields:
  Try(Vec_deserialize("Method", b, fields.pos), LAMBDA methods:
  Try(Vec_deserialize("Attribute", b, methods.pos), LAMBDA attributes:
    Ok([magic_bytes |-> magic_bytes.val,
        minor_version |-> minor_version.val,
        major_version |-> major_version.val,
        constant_pool |-> constant_pool.val,
        access_flags |-> access_flags.val,
        this_class |-> this_class.val,
        super_class |-> super_class_ok(super_class),
        interfaces |-> interfaces.val,
        fields |-> fields.val,
        methods |-> methods.val,
        attributes |-> attributes.val], attributes.pos))))))))))))

\* The resolution pass visits the attributes of each field, then of each
\* method, then of the class.  A place is <<list, i, j>>: attribute j of
\* member i of the list, or attribute j of the class (i = 0).
RECURSIVE MemberPlaces(_, _, _)
MemberPlaces(list, members, i) ==
  IF i > Len(members) THEN <<>>
  ELSE [j \in 1..Len(members[i].attributes) |-> <<list, i, j>>]
         \o MemberPlaces(list, members, i + 1)

\* faulty variant: the class's own attributes are visited first
Places_class_first(c) ==
  [j \in 1..Len(c.attributes) |-> <<"attributes", 0, j>>]
    \o MemberPlaces("fields", c.fields, 1) \o MemberPlaces("methods", c.methods, 1)

Places(c) ==
  MemberPlaces("fields", c.fields, 1) \o MemberPlaces("methods", c.methods, 1)
    \o [j \in 1..Len(c.attributes) |-> <<"attributes", 0, j>>]

AttributeAt(c, pl) ==
  IF pl[1] = "fields" THEN c.fields[pl[2]].attributes[pl[3]]
  ELSE IF pl[1] = "methods" THEN c.methods[pl[2]].attributes[pl[3]]
  ELSE c.attributes[pl[3]]

\* faulty variant: the attribute is moved to the front of its list
MovedToFront(attrs, j, a) == <<a>> \o SubSeq(attrs, 1, j - 1) \o SubSeq(attrs, j + 1, Len(attrs))
WithAttribute_moved(c, pl, a) ==
  IF pl[1] = "fields"
  THEN [c EXCEPT !.fields[pl[2]].attributes = MovedToFront(@, pl[3], a)]
  ELSE IF pl[1] = "methods"
  THEN [c EXCEPT !.methods[pl[2]].attributes = MovedToFront(@, pl[3], a)]
  ELSE [c EXCEPT !.attributes = MovedToFront(@, pl[3], a)]

WithAttribute(c, pl, a) ==
  IF pl[1] = "fields" THEN [c EXCEPT !.fields[pl[2]].attributes[pl[3]] = a]
  ELSE IF pl[1] = "methods" THEN [c EXCEPT !.methods[pl[2]].attributes[pl[3]] = a]
  ELSE [c EXCEPT !.attributes[pl[3]] = a]

\* let _ = a.resolve(&constant_pool) at one place
resolve_at(c, pl) ==
  Bind(Attribute_resolve(AttributeAt(c, pl), c.constant_pool),
       LAMBDA r : [status |-> r.status, class |-> WithAttribute(c, pl, r.attr)])

RECURSIVE resolve_from(_, _, _)
resolve_from(c, places, k) ==
  IF k > Len(places) THEN [status |-> "ok", class |-> c]
  ELSE Bind(resolve_at(c, places[k]), LAMBDA r :
         IF r.status = "panic" THEN [status |-> "panic", class |-> c]
         ELSE resolve_from(r.class, places, k + 1))

NoClass == [none |-> TRUE]

\* the whole of JavaClass::deserialize:
\* [status |-> "ok", class, pos], [status |-> "err"] or [status |-> "panic"]
JavaClass_deserialize(b) ==
  Bind(JavaClass_structure(b), LAMBDA s :
    IF IsPanic(s) THEN [status |-> "panic", class |-> NoClass, pos |-> s.pos]
    ELSE IF ~s.ok THEN [status |-> "err", class |-> NoClass, pos |-> s.pos]
    ELSE Bind(resolve_from(s.val, Places(s.val), 1), LAMBDA r :
           IF r.status = "panic"
           THEN [status |-> "panic", class |-> NoClass, pos |-> s.pos]
           ELSE [status |-> "ok", class |-> r.class, pos |-> s.pos]))

(***************************************************************************)
(* The input catalogue: class files written out byte by byte               *)
(***************************************************************************)
W16(n) == <<n \div 256, n % 256>>
W32(n) == <<0, 0>> \o W16(n)

RECURSIVE Concat(_)
Concat(ss) == IF ss = <<>> THEN <<>> ELSE Head(ss) \o Concat(Tail(ss))

Utf8Bytes(text) == <<1>> \o W16(Len(text)) \o text
LongBytes == <<5, 0, 0, 0, 0, 0, 0, 0, 42>>
ClassBytes(i) == <<7>> \o W16(i)
PoolBytes(count, entries) == W16(count) \o Concat(entries)
AttrBytes(name, body) == W16(name) \o W32(Len(body)) \o body
ListBytes(items) == W16(Len(items)) \o Concat(items)
MemberBytes(flags, name, desc, attrs) ==
  W16(flags) \o W16(name) \o W16(desc) \o ListBytes(attrs)
HeaderBytes == <<202, 254, 186, 190>> \o W16(0) \o W16(52)
FileBytes(pool, flags, this, super, ifs, fields, methods, attrs) ==
  HeaderBytes \o pool \o W16(flags) \o W16(this) \o W16(super)
    \o ListBytes([i \in 1..Len(ifs) |-> W16(ifs[i])])
    \o ListBytes(fields) \o ListBytes(methods) \o ListBytes(attrs)

NAME_X == <<88>>

\* 1 "Code", 2 "ConstantValue", 3 "Exceptions", 4 a Long (5 is skipped),
\* 6 a Class, 7 "X"
StdPool ==
  PoolBytes(8, <<Utf8Bytes(NAME_Code), Utf8Bytes(NAME_ConstantValue),
                 Utf8Bytes(NAME_Exceptions), LongBytes, ClassBytes(1),
                 Utf8Bytes(NAME_X)>>)

\* one entry of every tag; the Double at 16 is the last entry (count 17)
AllTagsPool ==
  PoolBytes(17, <<Utf8Bytes(NAME_Code), <<3, 255, 255, 255, 255>>, <<4, 127, 192, 0, 1>>,
                  LongBytes, ClassBytes(1), <<8>> \o W16(1), <<9>> \o W16(6) \o W16(11),
                  <<10>> \o W16(6) \o W16(11), <<11>> \o W16(6) \o W16(11),
                  <<12>> \o W16(1) \o W16(1), <<15, 9>> \o W16(9), <<16>> \o W16(1),
                  <<18>> \o W16(0) \o W16(11), Utf8Bytes(<<>>),
                  <<6, 127, 248, 0, 0, 0, 0, 0, 1>>>>)

\* text that is not UTF-8: a lone 0xFF, the two-byte NUL of class files, a
\* surrogate, a truncated sequence; and text that is
LossyPool ==
  PoolBytes(7, <<Utf8Bytes(<<255>>), Utf8Bytes(<<65, 192, 128, 66>>),
                 Utf8Bytes(<<237, 160, 128>>), Utf8Bytes(<<226, 130>>),
                 Utf8Bytes(<<195, 169, 226, 130, 172, 240, 159, 152, 128>>),
                 Utf8Bytes(NAME_Code)>>)

\* a Long as the last entry, at index count - 1
LongLastPool == PoolBytes(3, <<Utf8Bytes(NAME_X), LongBytes>>)

\* a count field that takes one slot for the Long: two entries, count 3
MiscountedPool == PoolBytes(3, <<LongBytes, Utf8Bytes(NAME_X)>>)

\* "Code" at 1, "ConstantValue" at 2, a Class at 3: under the count 5, and
\* under the count 4
ThreeEntries == <<Utf8Bytes(NAME_Code), Utf8Bytes(NAME_ConstantValue), ClassBytes(1)>>
ThreeOfFivePool == PoolBytes(5, ThreeEntries)
ThreeOfFourPool == PoolBytes(4, ThreeEntries)

CV_good == AttrBytes(2, W16(6))
CV_trailing == AttrBytes(2, W16(6) \o <<9>>)
CV_short == AttrBytes(2, <<0>>)
CV_zero == AttrBytes(2, W16(0))
EX_good == AttrBytes(3, W16(2) \o W16(6) \o W16(7))
EX_zero == AttrBytes(3, W16(1) \o W16(0))
EX_short == AttrBytes(3, W16(2) \o W16(6))
Unknown == AttrBytes(7, <<1, 2, 3>>)
NotText_Long == AttrBytes(4, W16(6))
NotText_Class == AttrBytes(6, W16(6))
Skipped == AttrBytes(5, W16(6))
Beyond == AttrBytes(100, W16(6))

CodeBody(catch, nested) ==
  W16(1) \o W16(2) \o W32(2) \o <<42, 177>>
    \o ListBytes(<<W16(0) \o W16(2) \o W16(2) \o W16(catch)>>) \o ListBytes(nested)

Code_good == AttrBytes(1, CodeBody(6, <<CV_good, Unknown, EX_good>>))
Code_catch_all == AttrBytes(1, CodeBody(0, <<CV_good>>))
Code_nested_fail == AttrBytes(1, CodeBody(6, <<CV_short, Unknown, CV_good>>))
Code_in_Code == AttrBytes(1, CodeBody(6, <<AttrBytes(1, CodeBody(6, <<CV_trailing>>))>>))
Code_short == AttrBytes(1, W16(1) \o W16(2) \o W32(9) \o <<42>>)
Code_around_catch_all == AttrBytes(1, CodeBody(6, <<Code_catch_all, CV_good>>))
Code_nested_skipped == AttrBytes(1, CodeBody(6, <<CV_good, Skipped>>))

StdFile(super, ifs, fieldAttrs, methodAttrs, attrs) ==
  FileBytes(StdPool, 33, 6, super, ifs,
            <<MemberBytes(2, 7, 7, fieldAttrs)>>,
            <<MemberBytes(1, 7, 7, methodAttrs)>>, attrs)

EmptyFile(pool) == FileBytes(pool, 33, 1, 0, <<>>, <<>>, <<>>, <<>>)

\* two fields and two methods, each with attributes that resolve
TwoOfEachFile ==
  FileBytes(StdPool, 33, 6, 6, <<>>,
            <<MemberBytes(2, 7, 7, <<CV_good, EX_good>>), MemberBytes(2, 7, 7, <<CV_good>>)>>,
            <<MemberBytes(1, 7, 7, <<Code_good>>), MemberBytes(1, 7, 7, <<EX_good, CV_good>>)>>,
            <<CV_good, EX_good>>)

\* the curated class files
Bases ==
  << EmptyFile(PoolBytes(1, <<>>)),
     EmptyFile(LossyPool),
     StdFile(6, <<6>>, <<CV_good, Unknown>>, <<Code_good, EX_good>>, <<Unknown>>),
     StdFile(6, <<6, 5>>, <<CV_short, CV_good>>, <<Code_catch_all, EX_zero, EX_good>>,
             <<CV_zero, Unknown, CV_trailing>>),
     StdFile(5, <<>>, <<Unknown, EX_short>>, <<Code_nested_fail, Code_short>>,
             <<NotText_Long, NotText_Class, CV_good>>),
     StdFile(0, <<>>, <<>>, <<Code_in_Code>>, <<EX_good>>),
     StdFile(6, <<>>, <<>>, <<>>, <<CV_good, Skipped, CV_good>>),
     StdFile(6, <<>>, <<>>, <<>>, <<Beyond>>),
     StdFile(6, <<>>, <<Skipped>>, <<Code_good>>, <<CV_good>>),
     StdFile(6, <<>>, <<>>, <<Code_nested_skipped>>, <<>>),
     EmptyFile(AllTagsPool),
     EmptyFile(PoolBytes(0, <<>>)),
     EmptyFile(LongLastPool),
     StdFile(6, <<6>>, <<>>, <<>>, <<CV_trailing>>) \o <<0, 1, 2>>,
     StdFile(6, <<>>, <<CV_short>>, <<EX_good>>, <<Unknown, Skipped>>),
     EmptyFile(MiscountedPool),
     EmptyFile(ThreeOfFivePool),
     EmptyFile(ThreeOfFourPool),
     TwoOfEachFile,
     StdFile(6, <<>>, <<>>, <<Code_around_catch_all>>, <<CV_good>>)
  >>

NBases == Len(Bases)

\* the bases every proper prefix of which is an input too
Truncated == {1, 3, 11}
MaxCut == 200

\* the value v in each required index position of the structural decode
IndexFiles(v) ==
  << FileBytes(StdPool, 33, v, 6, <<>>, <<>>, <<>>, <<>>),                   \* this_class
     StdFile(6, <<6, v>>, <<>>, <<>>, <<>>),                                 \* interface
     FileBytes(StdPool, 33, 6, 6, <<>>, <<MemberBytes(2, v, 7, <<>>)>>, <<>>, <<>>),
     FileBytes(StdPool, 33, 6, 6, <<>>, <<MemberBytes(2, 7, v, <<>>)>>, <<>>, <<>>),
     FileBytes(StdPool, 33, 6, 6, <<>>, <<>>, <<MemberBytes(1, v, 7, <<>>)>>, <<>>),
     FileBytes(StdPool, 33, 6, 6, <<>>, <<>>, <<MemberBytes(1, 7, v, <<>>)>>, <<>>),
     StdFile(6, <<>>, <<AttrBytes(v, <<>>)>>, <<>>, <<>>),                   \* attribute names
     StdFile(6, <<>>, <<>>, <<AttrBytes(v, <<>>)>>, <<>>),
     StdFile(6, <<>>, <<>>, <<>>, <<CV_good, AttrBytes(v, <<>>)>>),
     EmptyFile(PoolBytes(2, <<ClassBytes(v)>>)),                             \* entry operands
     EmptyFile(PoolBytes(2, <<<<8>> \o W16(v)>>)),
     EmptyFile(PoolBytes(2, <<<<9>> \o W16(v) \o W16(1)>>)),
     EmptyFile(PoolBytes(2, <<<<9>> \o W16(1) \o W16(v)>>)),
     EmptyFile(PoolBytes(2, <<<<10>> \o W16(v) \o W16(1)>>)),
     EmptyFile(PoolBytes(2, <<<<10>> \o W16(1) \o W16(v)>>)),
     EmptyFile(PoolBytes(2, <<<<11>> \o W16(v) \o W16(1)>>)),
     EmptyFile(PoolBytes(2, <<<<11>> \o W16(1) \o W16(v)>>)),
     EmptyFile(PoolBytes(2, <<<<12>> \o W16(v) \o W16(1)>>)),
     EmptyFile(PoolBytes(2, <<<<12>> \o W16(1) \o W16(v)>>)),
     EmptyFile(PoolBytes(2, <<<<15, 1>> \o W16(v)>>)),
     EmptyFile(PoolBytes(2, <<<<16>> \o W16(v)>>)),
     EmptyFile(PoolBytes(2, <<<<18>> \o W16(1) \o W16(v)>>))
  >>
NIndexFiles == Len(IndexFiles(0))
IndexValues == {0, 1, 5, 7, 65535}

\* the super-class field holding v
SuperFile(v) == StdFile(v, <<6>>, <<>>, <<>>, <<Unknown>>)
SuperValues == {0, 1, 5, 6, 255, 256, 32768, 65535}

\* a pool of one entry with tag byte t; the operands suit every known tag
U8_MAX == 255
TagBytes == 0..U8_MAX
Operands(t) ==
  IF t = 1 THEN W16(2) \o <<72, 105>>
  ELSE IF t \in {5, 6} THEN <<0, 0, 0, 1, 0, 0, 0, 2>>
  ELSE IF t = 15 THEN <<5>> \o W16(1)
  ELSE IF t \in {7, 8, 16} THEN W16(1)
  ELSE <<0, 1, 0, 1>>
TagFile(t) == EmptyFile(PoolBytes(IF t \in {5, 6} THEN 3 ELSE 2, <<<<t>> \o Operands(t)>>))

\* a MethodHandle entry with reference-kind byte k
KindBytes == 0..U8_MAX
KindFile(k) == EmptyFile(PoolBytes(2, <<<<15, k>> \o W16(1)>>))

\* access flags v on the class (1), on a field (2), on a method (3)
FlagValues == {2 ^ k : k \in 0..15} \cup {0, 33, 1537, 32767, 32769, 49152, 65535}
FlagsFile(where, v) ==
  FileBytes(StdPool, IF where = 1 THEN v ELSE 33, 6, 6, <<>>,
            <<MemberBytes(IF where = 2 THEN v ELSE 2, 7, 7, <<CV_good>>)>>,
            <<MemberBytes(IF where = 3 THEN v ELSE 1, 7, 7, <<>>)>>, <<>>)

\* a Utf8 entry of BigText bytes 0xFF: its lossy text is three times as long
BigText == 21846
BigFile == EmptyFile(PoolBytes(2, <<Utf8Bytes([i \in 1..BigText |-> 255])>>))

\* an attribute with name index `name` and the payload numbered k, as the
\* field's attribute, nested in the method's "Code", and as the class's
PayloadBytes == <<0, 1, 255>>
MaxPayload == 39
Digit(k, d) == PayloadBytes[((k \div d) % 3) + 1]
Payload(k) ==
  IF k = 0 THEN <<>>
  ELSE IF k <= 3 THEN <<Digit(k - 1, 1)>>
  ELSE IF k <= 12 THEN <<Digit(k - 4, 3), Digit(k - 4, 1)>>
  ELSE <<Digit(k - 13, 9), Digit(k - 13, 3), Digit(k - 13, 1)>>
BlobNames == {1, 2, 3, 4, 6, 7}
BlobFile(name, k) ==
  StdFile(6, <<>>, <<AttrBytes(name, Payload(k))>>,
          <<AttrBytes(1, CodeBody(6, <<AttrBytes(name, Payload(k))>>))>>,
          <<AttrBytes(name, Payload(k))>>)

Origins ==
  {<<"base", k, 0>> : k \in 1..NBases}
    \cup {<<"cut", k, n>> : k \in Truncated, n \in 0..MaxCut}
    \cup {<<"index", k, v>> : k \in 1..NIndexFiles, v \in IndexValues}
    \cup {<<"super", v, 0>> : v \in SuperValues}
    \cup {<<"tag", t, 0>> : t \in TagBytes}
    \cup {<<"kind", k, 0>> : k \in KindBytes}
    \cup {<<"flags", w, v>> : w \in 1..3, v \in FlagValues}
    \cup {<<"big", 0, 0>>}
    \cup {<<"blob", n, k>> : n \in BlobNames, k \in 0..MaxPayload}

InputOf(o) ==
  CASE o[1] = "base" -> Bases[o[2]]
    [] o[1] = "cut" -> SubSeq(Bases[o[2]], 1, o[3])
    [] o[1] = "index" -> IndexFiles(o[3])[o[2]]
    [] o[1] = "super" -> SuperFile(o[2])
    [] o[1] = "tag" -> TagFile(o[2])
    [] o[1] = "kind" -> KindFile(o[2])
    [] o[1] = "flags" -> FlagsFile(o[2], o[3])
    [] o[1] = "big" -> BigFile
    [] o[1] = "blob" -> BlobFile(o[2], o[3])

(***************************************************************************)
(* The program: decode, resolve, encode, decode again                      *)
(***************************************************************************)
NoBytes == <<>>
NoLoop == [at |-> "none"]
NotYet == [status |-> "none"]

Init ==
  /\ origin \in {o \in Origins : o[1] # "cut" \/ o[3] < Len(Bases[o[2]])}
  /\ input = InputOf(origin)
  /\ eofSeeksEnd \in BOOLEAN
  /\ overflowChecks \in BOOLEAN
  /\ hashSeed \in HashSeeds
  /\ loop = NoLoop
  /\ pc = "start"
  /\ consumed = 0
  /\ class = NoClass
  /\ next_attr = 0
  /\ output = NoBytes
  /\ again = NotYet

\* JavaClass::deserialize, up to the end of the structural decode
Deserialize ==
  /\ pc = "start"
  /\ \E s \in {JavaClass_structure(input)} :
         /\ pc' = IF IsPanic(s) THEN "panic" ELSE IF s.ok THEN "resolve" ELSE "error"
         /\ class' = IF s.ok THEN s.val ELSE NoClass
         /\ consumed' = s.pos
  /\ UNCHANGED <<origin, input, eofSeeksEnd, overflowChecks, hashSeed, loop, next_attr, output, again>>

\* one iteration of the resolution loops
ResolveNext ==
  /\ pc = "resolve"
  /\ next_attr < Len(Places(class))
  /\ \E r \in {resolve_at(class, Places(class)[next_attr + 1])} :
         /\ pc' = IF r.status = "panic" THEN "panic" ELSE "resolve"
         /\ class' = IF r.status = "panic" THEN NoClass ELSE r.class
  /\ next_attr' = next_attr + 1
  /\ UNCHANGED <<origin, input, eofSeeksEnd, overflowChecks, hashSeed, loop, consumed, output, again>>

\* Ok(Self { .. })
Return ==
  /\ pc = "resolve"
  /\ next_attr = Len(Places(class))
  /\ pc' = "decoded"
  /\ UNCHANGED <<origin, input, eofSeeksEnd, overflowChecks, hashSeed, loop, consumed, class, next_attr,
                 output, again>>

\* JavaClass::serialize of the class returned
Serialize ==
  /\ pc = "decoded"
  /\ output' = JavaClass_serialize(class)
  /\ pc' = "encoded"
  /\ UNCHANGED <<origin, input, eofSeeksEnd, overflowChecks, hashSeed, loop, consumed, class, next_attr,
                 again>>

\* JavaClass::deserialize of the bytes written
DeserializeAgain ==
  /\ pc = "encoded"
  /\ again' = JavaClass_deserialize(output)
  /\ pc' = "done"
  /\ UNCHANGED <<origin, input, eofSeeksEnd, overflowChecks, hashSeed, loop, consumed, class, next_attr,
                 output>>

Next == Deserialize \/ ResolveNext \/ Return \/ Serialize \/ DeserializeAgain

Spec == Init /\ [][Next]_vars

\* the program is single-threaded and runs to its end: a step that can be
\* taken is taken
FairSpec == Spec /\ WF_vars(Next)

(***************************************************************************)
(* ConstantPool::deserialize, one iteration of its loop at a time, on pools *)
(* that fill the whole index range                                         *)
(***************************************************************************)
\* n Long entries
Longs(n) == [i \in 1..(9 * n) |-> LongBytes[((i - 1) % 9) + 1]]
\* n Class entries
Classes(n) == [i \in 1..(3 * n) |-> ClassBytes(1)[((i - 1) % 3) + 1]]

\* the pools: a count, then the entries
PoolFiles ==
  << W16(U16_MAX) \o ClassBytes(1) \o Longs(U16_MAX \div 2),   \* a Long at 65534
     W16(U16_MAX) \o ClassBytes(1) \o Longs(U16_MAX \div 2) \o ClassBytes(1),
     W16(U16_MAX) \o Longs(U16_MAX \div 2),                    \* a Long at 65533
     W16(U16_MAX) \o Longs(U16_MAX \div 4),                    \* the file ends early
     W16(U16_MAX - 1) \o Classes(2) \o Longs(U16_MAX \div 2), \* count 65534
     W16(0), W16(1), W16(2) \o LongBytes, <<0>>,
     W16(3) \o LongBytes \o ClassBytes(1) >>

NPoolFiles == Len(PoolFiles)
bytes == PoolFiles[origin[2]]

PoolInit ==
  /\ origin \in {<<"pool", k, 0>> : k \in 1..NPoolFiles}
  /\ input = NoBytes        \* the cursor is over PoolFiles[origin[2]]
  /\ eofSeeksEnd \in BOOLEAN
  /\ overflowChecks \in BOOLEAN
  /\ hashSeed = 0
  /\ loop = [at |-> "count", count |-> 0, index |-> 0, pos |-> 0, inserted |-> 0,
             key |-> 0, wrapped |-> FALSE]
  /\ pc = "start"
  /\ consumed = 0
  /\ class = NoClass
  /\ next_attr = 0
  /\ output = NoBytes
  /\ again = NotYet

\* let count = u16::deserialize(bytes)?; let mut index = 1u16
ReadCount ==
  /\ loop.at = "count"
  /\ \E count \in {u16_deserialize(bytes, 0)} :
       loop' = IF count.ok
               THEN [loop EXCEPT !.at = "while", !.count = count.val, !.index = 1,
                                 !.pos = count.pos]
               ELSE [loop EXCEPT !.at = "err", !.pos = count.pos]
  /\ UNCHANGED <<origin, input, eofSeeksEnd, overflowChecks, hashSeed, pc, consumed, class,
                 next_attr, output, again>>

\* one iteration of `while index < count`
LoopBody ==
  /\ loop.at = "while"
  /\ loop.index < loop.count
  /\ \E entry \in {ConstantPoolEntry_deserialize(bytes, loop.pos)} :
       loop' =
         IF ~entry.ok THEN [loop EXCEPT !.at = "err", !.pos = entry.pos]       \* `?`
         ELSE IF ~CPIndex_try_from(loop.index).ok
         THEN [loop EXCEPT !.at = "panic", !.pos = entry.pos]                  \* unwrap
         ELSE IF loop.index + ConstantPoolEntry_size(entry.val) > U16_MAX
         THEN IF overflowChecks
              THEN [loop EXCEPT !.at = "panic", !.pos = entry.pos,
                                !.key = loop.index, !.inserted = @ + 1]
              ELSE [loop EXCEPT !.pos = entry.pos, !.key = loop.index, !.inserted = @ + 1,
                                !.index = (loop.index + ConstantPoolEntry_size(entry.val))
                                            % (U16_MAX + 1),
                                !.wrapped = TRUE]
         ELSE [loop EXCEPT !.pos = entry.pos, !.key = loop.index, !.inserted = @ + 1,
                           !.index = loop.index + ConstantPoolEntry_size(entry.val)]
  /\ UNCHANGED <<origin, input, eofSeeksEnd, overflowChecks, hashSeed, pc, consumed, class,
                 next_attr, output, again>>

\* Ok(Self { inner: map })
LoopEnd ==
  /\ loop.at = "while"
  /\ ~(loop.index < loop.count)
  /\ loop' = [loop EXCEPT !.at = "ok"]
  /\ UNCHANGED <<origin, input, eofSeeksEnd, overflowChecks, hashSeed, pc, consumed, class,
                 next_attr, output, again>>

PoolNext == ReadCount \/ LoopBody \/ LoopEnd

PoolSpec == PoolInit /\ [][PoolNext]_vars

(***************************************************************************)
(* Properties                                                              *)
(***************************************************************************)
\* the class as the structural decode leaves it, every attribute opaque
Structure == JavaClass_structure(input)
PassEnded == pc \in {"decoded", "panic"} /\ Structure.ok
PlacesOf(c) == {Places(c)[k] : k \in 1..Len(Places(c))}
Recognized == {NAME_ConstantValue, NAME_Code, NAME_Exceptions}

\* C1: round-trip identity: encoding a class returned by a successful decode
\* and decoding the bytes again succeeds and yields an equal class.
C1_RoundTrip == pc = "done" => again.status = "ok" /\ again.class = class

\* C2: non-fatal resolution: an attribute whose name is text but not a
\* recognized name, or whose body of a recognized kind does not decode, keeps
\* its name index and blob, the other attributes of the class are still
\* resolved, and the class decode returns success.
ResolutionFails(a, cp) ==
  /\ a.name_index \in DOMAIN cp
  /\ cp[a.name_index].tag = 1
  /\ \/ cp[a.name_index].raw \notin Recognized
     \/ Attribute_resolve(a, cp).status = "err"

C2_NonFatalResolution ==
  PassEnded =>
    LET s == Structure.val
    IN  \A pl \in PlacesOf(s) :
          ResolutionFails(AttributeAt(s, pl), s.constant_pool) =>
            /\ pc = "decoded"
            /\ AttributeAt(class, pl) = AttributeAt(s, pl)
            /\ \A other \in PlacesOf(s) :
                 AttributeAt(class, other)
                   = Attribute_resolve(AttributeAt(s, other), s.constant_pool).attr

\* C3: resolving an attribute whose name index is no key of the pool, or
\* whose entry is not a Utf8 entry, returns an error and leaves the attribute
\* unchanged, and the class decode still returns the class.
NameMissingOrNotText(a, cp) ==
  a.name_index \notin DOMAIN cp \/ cp[a.name_index].tag # 1

C3_MissingNameIsAnError ==
  PassEnded =>
    LET s == Structure.val
    IN  \A pl \in PlacesOf(s) :
          NameMissingOrNotText(AttributeAt(s, pl), s.constant_pool) =>
            /\ Attribute_resolve(AttributeAt(s, pl), s.constant_pool)
                 = Resolved("err", AttributeAt(s, pl))
            /\ pc = "decoded"
            /\ AttributeAt(class, pl) = AttributeAt(s, pl)

\* C4: constant-pool width invariant: in every decoded pool no key is 0, the
\* first key is 1, the key after k is k plus the width of the entry at k
\* (2 for Long and Double, 1 otherwise), the index after a Long or Double is
\* no key, and every key is below the count field.
CountField == input[9] * 256 + input[10]
WidthOf(e) == IF e.tag \in {5, 6} THEN 2 ELSE 1

C4_PoolWidth ==
  class # NoClass =>
    LET cp == class.constant_pool
        keys == DOMAIN cp
    IN  /\ 0 \notin keys
        /\ keys # {} => 1 \in keys
        /\ \A k \in keys :
             /\ k < CountField
             /\ \A j \in keys : ~(k < j /\ j < k + WidthOf(cp[k]))
             /\ (\E j \in keys : j > k) => k + WidthOf(cp[k]) \in keys

C4_Witness ==
  /\ class # NoClass
  /\ {4, 6} \subseteq DOMAIN class.constant_pool
  /\ class.constant_pool[4].tag = 5
  /\ 5 \notin DOMAIN class.constant_pool

\* C5: byte-exact mirror: encoding a decoded class writes exactly the bytes
\* the decoder consumed.
C5_ByteExact == pc = "encoded" => output = SubSeq(input, 1, consumed)

\* C6: truncation is fatal: every proper prefix of a class file that decodes
\* to its last byte is rejected with an error and no class, also when it
\* ends inside the super-class field.
DecodesWhole(b) == JavaClass_structure(b).ok /\ JavaClass_structure(b).pos = Len(b)

C6_TruncationFatal ==
  origin[1] = "cut" /\ DecodesWhole(Bases[origin[2]]) /\ pc # "start" =>
    pc = "error" /\ class = NoClass

\* the super-class field of the first base is bytes 15 and 16
C6_Witness ==
  /\ origin = <<"cut", 1, 15>>
  /\ ~eofSeeksEnd
  /\ DecodesWhole(Bases[1])
  /\ pc = "error"

\* C7: a zero in a required constant-pool-index position makes the decode
\* return an error (a non-zero value there does not); the super-class field
\* is the one index position where 0 is accepted.
C7_ZeroIndexFatal ==
  /\ origin[1] = "index" /\ pc # "start" =>
       /\ pc = "error" <=> origin[3] = 0
       /\ pc = "error" => class = NoClass
  /\ origin = <<"super", 0, 0>> /\ pc # "start" => pc # "error"

C7_Witness == origin = <<"index", 9, 0>> /\ pc = "error"

\* C8: optional super-class: 0 decodes to an absent super-class, a non-zero
\* value to a present one with that index; the encoder writes 0 or the
\* index, so the field round-trips.
SuperOffset == Len(HeaderBytes \o StdPool) + 4

C8_OptionalSuper ==
  origin[1] = "super" /\ pc # "start" =>
    /\ pc \notin {"error", "panic"}
    /\ class # NoClass
    /\ class.super_class = IF origin[2] = 0 THEN None ELSE Some(origin[2])
    /\ pc \in {"encoded", "done"} =>
         SubSeq(output, SuperOffset + 1, SuperOffset + 2) = W16(origin[2])
    /\ pc = "done" =>
         again.status = "ok" /\ again.class.super_class = class.super_class

C8_Witness ==
  /\ origin = <<"super", 0, 0>>
  /\ pc = "done"
  /\ class.super_class = None
  /\ SubSeq(output, SuperOffset + 1, SuperOffset + 2) = <<0, 0>>

\* C9: a constant-pool entry decodes only with a tag in {1, 3..12, 15, 16, 18}
\* and, for tag 15, a reference kind in 1..9; any other tag or kind makes the
\* class decode return an error; the encoder writes the same tag byte back.
KnownTags == {1, 3, 4, 5, 6, 7, 8, 9, 10, 11, 12, 15, 16, 18}
KnownKinds == 1..9
FirstTagAt == Len(HeaderBytes) + 3

C9_KnownTags ==
  /\ origin[1] = "tag" /\ pc # "start" =>
       /\ pc # "panic"
       /\ pc # "error" <=> origin[2] \in KnownTags
       /\ pc \in {"encoded", "done"} => output[FirstTagAt] = origin[2]
  /\ origin[1] = "kind" /\ pc # "start" =>
       /\ pc # "panic"
       /\ pc # "error" <=> origin[2] \in KnownKinds
       /\ pc \in {"encoded", "done"} =>
            output[FirstTagAt] = 15 /\ output[FirstTagAt + 1] = origin[2]

C9_Witness ==
  /\ origin = <<"kind", 9, 0>>
  /\ pc = "encoded"
  /\ output[FirstTagAt] = 15

\* C10: an access-flags field makes the decode fail exactly when bit 0x8000
\* is set; every other value is kept whole and written back unchanged.
FlagsOf(c, where) ==
  IF where = 1 THEN c.access_flags
  ELSE IF where = 2 THEN c.fields[1].access_flags
  ELSE c.methods[1].access_flags

C10_AccessFlags ==
  origin[1] = "flags" /\ pc # "start" =>
    /\ pc # "panic"
    /\ pc = "error" <=> Bit(origin[3], 15) = 1
    /\ class # NoClass => FlagsOf(class, origin[2]) = origin[3]
    /\ pc \in {"encoded", "done"} => output = input

C10_Witness ==
  /\ origin = <<"flags", 2, 32767>>
  /\ pc = "encoded"
  /\ class.fields[1].access_flags = 32767

\* C11: recursive resolution: in a class returned by the decode, every
\* attribute nested at any depth in a resolved "Code" attribute has been
\* through resolution: it is typed, or it is a blob that resolution rejects;
\* a nested "ConstantValue" and "Exceptions" hold their typed variant, a
\* nested attribute named "X" holds its blob, also at depth two.
RECURSIVE Settled(_, _)
Settled(a, cp) ==
  /\ a.info.kind = "Any" => Attribute_resolve(a, cp) = Resolved("err", a)
  /\ a.info.kind = "Code" =>
       \A i \in 1..Len(a.info.attributes) : Settled(a.info.attributes[i], cp)

NestedOf(a) == a.info.attributes

C11_RecursiveResolution ==
  pc = "decoded" =>
    /\ \A pl \in PlacesOf(class) :
         AttributeAt(class, pl).info.kind = "Code" =>
           Settled(AttributeAt(class, pl), class.constant_pool)
    /\ origin = <<"base", 3, 0>> =>
         LET n == NestedOf(class.methods[1].attributes[1])
         IN  /\ n[1] = [name_index |-> 2, info |-> [kind |-> "ConstantValue", index |-> 6]]
             /\ n[2] = [name_index |-> 7, info |-> AnyInfo(<<1, 2, 3>>)]
             /\ n[3] = [name_index |-> 3,
                        info |-> [kind |-> "Exceptions",
                                  exception_index_table |-> <<6, 7>>]]
    /\ origin = <<"base", 6, 0>> =>
         NestedOf(NestedOf(class.methods[1].attributes[1])[1])[1].info
           = [kind |-> "ConstantValue", index |-> 6]

C11_Witness ==
  /\ origin = <<"base", 6, 0>>
  /\ pc = "decoded"
  /\ NestedOf(class.methods[1].attributes[1])[1].info.kind = "Code"
  /\ NestedOf(NestedOf(class.methods[1].attributes[1])[1])[1].info.kind = "ConstantValue"

\* C12: an attribute that is still opaque is written as its name index, the
\* 32-bit length of its blob and the blob, so its record in the output is
\* the record it was decoded from, for every payload: as a field's
\* attribute, nested in a "Code" and as a class attribute.
FieldRecordAt == Len(HeaderBytes \o StdPool) + 18
Opaque(a) == a.info.kind = "Any"
Record(o) == AttrBytes(o[2], Payload(o[3]))
Last(b, n) == SubSeq(b, Len(b) - n + 1, Len(b))

C12_OpaqueVerbatim ==
  origin[1] = "blob" /\ pc \in {"encoded", "done"} =>
    LET f == class.fields[1].attributes[1]
        m == class.methods[1].attributes[1]
        c == class.attributes[1]
        rec == Record(origin)
        n == Len(rec)
    IN  /\ Opaque(f) =>
             /\ Attribute_serialize(f) = rec
             /\ SubSeq(output, FieldRecordAt + 1, FieldRecordAt + n) = rec
             /\ SubSeq(input, FieldRecordAt + 1, FieldRecordAt + n) = rec
        /\ Opaque(c) =>
             /\ Attribute_serialize(c) = rec
             /\ Last(output, n) = rec /\ Last(input, n) = rec
        /\ ~Opaque(m) /\ Opaque(NestedOf(m)[1]) /\ Opaque(c) =>
             /\ Attribute_serialize(NestedOf(m)[1]) = rec
             /\ Last(output, 2 * n + 2) = rec \o W16(1) \o rec
             /\ Last(input, 2 * n + 2) = rec \o W16(1) \o rec

C12_Witness ==
  /\ origin = <<"blob", 7, 39>>
  /\ pc = "encoded"
  /\ Opaque(class.fields[1].attributes[1])
  /\ Opaque(NestedOf(class.methods[1].attributes[1])[1])
  /\ Last(output, 9) = <<0, 7, 0, 0, 0, 3, 255, 255, 255>>

\* C13: index validity is checked only at lookup: a non-zero value in the
\* this-class, super-class, interface, field or method name or descriptor
\* position, or as a pool entry's operand, is kept as it is whether or not it
\* is a key of the pool; the class decodes, and the lookup of an index that
\* is no key reports "(NONE)".
AttributeNamePositions == {7, 8, 9}
OperandSlot(k) == IF k \in {13, 15, 17, 19, 20, 22} THEN 2 ELSE 1
IndexAt(c, k) ==
  IF k = 1 THEN c.this_class
  ELSE IF k = 2 THEN c.interfaces[2]
  ELSE IF k = 3 THEN c.fields[1].name_index
  ELSE IF k = 4 THEN c.fields[1].descriptor_index
  ELSE IF k = 5 THEN c.methods[1].name_index
  ELSE IF k = 6 THEN c.methods[1].descriptor_index
  ELSE c.constant_pool[1].idx[OperandSlot(k)]

LookupReports(v, cp) ==
  /\ v \notin DOMAIN cp => DisplayCP_fmt(v, cp) = "(NONE)"
  /\ v \in DOMAIN cp => DisplayCP_fmt(v, cp) = cp[v]

C13_ValidityAtLookup ==
  /\ origin[1] = "index" /\ origin[2] \notin AttributeNamePositions
       /\ origin[3] # 0 /\ pc # "start" =>
         /\ pc \in {"resolve", "decoded", "encoded", "done"}
         /\ IndexAt(class, origin[2]) = origin[3]
         /\ LookupReports(origin[3], class.constant_pool)
  /\ origin[1] = "super" /\ origin[2] # 0 /\ pc # "start" =>
         /\ pc \in {"resolve", "decoded", "encoded", "done"}
         /\ class.super_class = Some(origin[2])
         /\ LookupReports(origin[2], class.constant_pool)

C13_Witness ==
  /\ origin = <<"index", 1, 5>>
  /\ pc = "decoded"
  /\ class.this_class = 5
  /\ class.constant_pool[4].tag = 5
  /\ DisplayCP_fmt(class.this_class, class.constant_pool) = "(NONE)"

\* C14 (as stated): the count written for a decoded pool is the count field
\* of the input, the tags follow in the input's order, and a pool with count
\* 5 and the three entries "Code", "ConstantValue", Class decodes to the keys
\* 1, 2, 3 and is written back with count 5.
PoolAt == Len(HeaderBytes)
CountWritten == output[PoolAt + 1] * 256 + output[PoolAt + 2]

\* the length of the entry at b[p + 1], by its tag
EntryLength(b, p) ==
  IF b[p + 1] = 1 THEN 3 + b[p + 2] * 256 + b[p + 3]
  ELSE IF b[p + 1] \in {3, 4, 9, 10, 11, 12, 18} THEN 5
  ELSE IF b[p + 1] \in {5, 6} THEN 9
  ELSE IF b[p + 1] = 15 THEN 4
  ELSE 3

\* the tags of the first n entries at b[p + 1]
RECURSIVE ScanTags(_, _, _)
ScanTags(b, p, n) ==
  IF n = 0 \/ p >= Len(b) THEN <<>>
  ELSE <<b[p + 1]>> \o ScanTags(b, p + EntryLength(b, p), n - 1)

RECURSIVE WidthSum(_, _)
WidthSum(cp, keys) ==
  IF keys = {} THEN 0
  ELSE LET k == CHOOSE k \in keys : TRUE
       IN  WidthOf(cp[k]) + WidthSum(cp, keys \ {k})

Entries(cp) == Cardinality(DOMAIN cp)
SameTags == ScanTags(output, PoolAt + 2, Entries(class.constant_pool))
              = ScanTags(input, PoolAt + 2, Entries(class.constant_pool))

Straddles(cp) ==
  CountField >= 1 /\ CountField - 1 \in DOMAIN cp /\ cp[CountField - 1].tag \in {5, 6}

C16_Terminates == <>(pc \in {"error", "done"})

\* the program does stop on every input: with a class, an error or a panic
C16_Halts == <>(pc \in {"error", "done", "panic"})

\* C17: the pool is written as a 16-bit count of 1 plus the sum of the
\* stored entries' widths, then the entries in strictly ascending order of
\* their index, whatever the order in which the map is iterated.
NthKey(cp, i) == CHOOSE k \in DOMAIN cp : Cardinality({j \in DOMAIN cp : j < k}) = i - 1
PoolWritten(cp) ==
  W16(1 + WidthSum(cp, DOMAIN cp))
    \o Concat([i \in 1..Entries(cp) |-> ConstantPoolEntry_serialize(cp[NthKey(cp, i)])])

C17_CountThenAscending ==
  pc \in {"encoded", "done"} =>
    /\ SubSeq(output, PoolAt + 1, PoolAt + Len(PoolWritten(class.constant_pool)))
         = PoolWritten(class.constant_pool)
    /\ ScanTags(output, PoolAt + 2, Entries(class.constant_pool))
         = [i \in 1..Entries(class.constant_pool) |->
              class.constant_pool[NthKey(class.constant_pool, i)].tag]

C17_Witness ==
  /\ origin = <<"base", 11, 0>>
  /\ hashSeed = 1
  /\ pc = "encoded"
  /\ HashMap_iter(class.constant_pool)[1] = 16
  /\ ScanTags(output, PoolAt + 2, 15) = <<1, 3, 4, 5, 7, 8, 9, 10, 11, 12, 15, 16, 18, 1, 6>>

\* C18: two phases: nothing is resolved before the structural decode of the
\* whole class has succeeded, nothing is resolved at all when it fails, and
\* the pass visits the attributes of each field, then of each method, then of
\* the class, each list in stored order.
ListRank(list) == IF list = "fields" THEN 1 ELSE IF list = "methods" THEN 2 ELSE 3
Before(p, q) ==
  \/ ListRank(p[1]) < ListRank(q[1])
  \/ ListRank(p[1]) = ListRank(q[1]) /\ p[2] < q[2]
  \/ ListRank(p[1]) = ListRank(q[1]) /\ p[2] = q[2] /\ p[3] < q[3]
StoredPlaces(c) ==
  UNION {{<<"fields", i, j>> : j \in DOMAIN c.fields[i].attributes} : i \in DOMAIN c.fields}
    \cup UNION {{<<"methods", i, j>> : j \in DOMAIN c.methods[i].attributes} :
                  i \in DOMAIN c.methods}
    \cup {<<"attributes", 0, j>> : j \in DOMAIN c.attributes}
Visited(c, pl) == Cardinality({q \in StoredPlaces(c) : Before(q, pl)}) < next_attr

C18_TwoPhases ==
  /\ pc = "start" => next_attr = 0 /\ class = NoClass
  /\ ~Structure.ok => next_attr = 0 /\ class = NoClass /\ pc \in {"start", "error", "panic"}
  /\ next_attr > 0 => Structure.ok /\ consumed = Structure.pos
  /\ pc = "resolve" =>
       LET s == Structure.val
       IN  /\ next_attr <= Cardinality(StoredPlaces(s))
           /\ \A pl \in StoredPlaces(s) :
                AttributeAt(class, pl) =
                  IF Visited(s, pl)
                  THEN Attribute_resolve(AttributeAt(s, pl), s.constant_pool).attr
                  ELSE AttributeAt(s, pl)

C18_Witness ==
  /\ origin = <<"base", 19, 0>>
  /\ pc = "resolve"
  /\ next_attr = 4
  /\ ~Opaque(class.fields[1].attributes[2])
  /\ class.fields[2].attributes[1].info = [kind |-> "ConstantValue", index |-> 6]
  /\ ~Opaque(class.methods[1].attributes[1])
  /\ Opaque(class.methods[2].attributes[1])
  /\ Opaque(class.attributes[1])

\* C19: an attribute is written as its name index, a 32-bit length equal
\* to the number of bytes its current info serializes to, and those bytes;
\* the length of a "Code" covers its nested attributes with their own
\* recomputed lengths.
U16At(b, p) == IF p + 2 <= Len(b) THEN b[p + 1] * 256 + b[p + 2] ELSE 0
U32At(b, p) == U16At(b, p) * 65536 + U16At(b, p + 2)

\* the position after n attribute records that start at b[p + 1], by the
\* lengths written in them
RECURSIVE AfterRecords(_, _, _)
AfterRecords(b, p, n) ==
  IF n = 0 \/ p >= Len(b) THEN p
  ELSE AfterRecords(b, p + 6 + U32At(b, p + 2), n - 1)

\* the position after n fields or methods that start at b[p + 1]
RECURSIVE AfterMembers(_, _, _)
AfterMembers(b, p, n) ==
  IF n = 0 \/ p >= Len(b) THEN p
  ELSE AfterMembers(b, AfterRecords(b, p + 8, U16At(b, p + 6)), n - 1)

InterfacesAt(b, cp) == PoolAt + Len(ConstantPool_serialize(cp)) + 6
FieldsAt(b, cp) == InterfacesAt(b, cp) + 2 + 2 * U16At(b, InterfacesAt(b, cp))
MethodsAt(b, cp) == AfterMembers(b, FieldsAt(b, cp) + 2, U16At(b, FieldsAt(b, cp)))
AttributesAt(b, cp) == AfterMembers(b, MethodsAt(b, cp) + 2, U16At(b, MethodsAt(b, cp)))
EndAt(b, cp) == AfterRecords(b, AttributesAt(b, cp) + 2, U16At(b, AttributesAt(b, cp)))

\* where the record of the attribute at a place starts
RecordAt(b, cp, pl) ==
  IF pl[1] = "fields"
  THEN AfterRecords(b, AfterMembers(b, FieldsAt(b, cp) + 2, pl[2] - 1) + 8, pl[3] - 1)
  ELSE IF pl[1] = "methods"
  THEN AfterRecords(b, AfterMembers(b, MethodsAt(b, cp) + 2, pl[2] - 1) + 8, pl[3] - 1)
  ELSE AfterRecords(b, AttributesAt(b, cp) + 2, pl[3] - 1)

\* the bytes of a typed or opaque info, counted from its fields
RECURSIVE InfoLength(_)
RECURSIVE RecordsLength(_)
RecordsLength(attributes) ==
  IF attributes = <<>> THEN 0
  ELSE 6 + InfoLength(Head(attributes).info) + RecordsLength(Tail(attributes))
InfoLength(info) ==
  IF info.kind = "Any" THEN Len(info.blob)
  ELSE IF info.kind = "ConstantValue" THEN 2
  ELSE IF info.kind = "Exceptions" THEN 2 + 2 * Len(info.exception_index_table)
  ELSE 8 + Len(info.code) + 2 + 8 * Len(info.exception_table)
         + 2 + RecordsLength(info.attributes)

\* the record at b[p + 1] is the attribute a, and so are the records nested
\* in it
RECURSIVE WrittenAs(_, _, _)
WrittenAs(b, p, a) ==
  /\ U16At(b, p) = a.name_index
  /\ U32At(b, p + 2) = InfoLength(a.info)
  /\ SubSeq(b, p + 7, p + 6 + U32At(b, p + 2)) = AttributeInfo_serialize(a.info)
  /\ a.info.kind = "Code" =>
       LET first == p + 6 + 8 + Len(a.info.code) + 2 + 8 * Len(a.info.exception_table) + 2
       IN  /\ AfterRecords(b, first, Len(a.info.attributes)) = p + 6 + U32At(b, p + 2)
           /\ \A j \in DOMAIN a.info.attributes :
                WrittenAs(b, AfterRecords(b, first, j - 1), a.info.attributes[j])

C19_LengthRecomputed ==
  pc \in {"encoded", "done"} =>
    /\ EndAt(output, class.constant_pool) = Len(output)
    /\ \A pl \in StoredPlaces(class) :
         WrittenAs(output, RecordAt(output, class.constant_pool, pl), AttributeAt(class, pl))

C19_Witness ==
  /\ origin = <<"base", 6, 0>>
  /\ pc = "encoded"
  /\ Len(output) = Len(input) - 1
  /\ LET at == RecordAt(output, class.constant_pool, <<"methods", 1, 1>>)
     IN  /\ U32At(output, at + 2) = U32At(input, at + 2) - 1
         /\ U32At(output, at + 2) = InfoLength(class.methods[1].attributes[1].info)
         /\ ~Opaque(NestedOf(NestedOf(class.methods[1].attributes[1])[1])[1])

\* C20: a sequence is decoded as a 16-bit count n and then exactly n
\* elements, kept in the order met, and the decode fails as a whole when an
\* element fails; it is encoded as its element count and then every element
\* in stored order, so decoding the encoding returns the same sequence.
\* A sequence is <<T, v>>: the element type and the elements.
RECURSIVE SeqsIn(_)
SeqsIn(a) ==
  IF a.info.kind = "Code"
  THEN {<<"ExceptionTableEntry", a.info.exception_table>>, <<"Attribute", a.info.attributes>>}
         \cup UNION {SeqsIn(a.info.attributes[j]) : j \in DOMAIN a.info.attributes}
  ELSE IF a.info.kind = "Exceptions" THEN {<<"CPIndex", a.info.exception_index_table>>}
  ELSE {}

\* the lists of a class: of the class as returned, and of the class as the
\* structural decode leaves it
ListsOf(c) ==
  {<<"CPIndex", c.interfaces>>, <<"Field", c.fields>>, <<"Method", c.methods>>,
   <<"Attribute", c.attributes>>}
    \cup {<<"Attribute", c.fields[i].attributes>> : i \in DOMAIN c.fields}
    \cup {<<"Attribute", c.methods[i].attributes>> : i \in DOMAIN c.methods}
    \cup UNION {SeqsIn(AttributeAt(c, pl)) : pl \in StoredPlaces(c)}

\* the element types whose decode is the inverse of their encoding; an
\* attribute is always decoded opaque, whatever it was encoded from
ElementsExact(T) == T \in {"CPIndex", "ExceptionTableEntry"}

Mirrors(T, v) ==
  LET enc == Vec_serialize(T, v)
      d == Vec_deserialize(T, enc \o <<0, 0>>, 0)
  IN  /\ enc = W16(Len(v)) \o Concat([i \in DOMAIN v |-> T_serialize(T, v[i])])
      /\ d.ok /\ d.pos = Len(enc) /\ Len(d.val) = Len(v)
      /\ \A i \in DOMAIN v : d.val[i] = T_deserialize(T, T_serialize(T, v[i]), 0).val
      /\ ~Vec_deserialize(T, SubSeq(enc, 1, 1), 0).ok
      /\ ~Vec_deserialize(T, SubSeq(enc, 1, Len(enc) - 1), 0).ok

RoundTrips(T, v) ==
  LET enc == Vec_serialize(T, v)
  IN  Vec_deserialize(T, enc, 0) = Ok(v, Len(enc))

C20_Sequences ==
  pc = "decoded" =>
    /\ \A s \in ListsOf(class) \cup ListsOf(Structure.val) : Mirrors(s[1], s[2])
    /\ \A s \in ListsOf(Structure.val) : RoundTrips(s[1], s[2])
    /\ \A s \in ListsOf(class) : ElementsExact(s[1]) => RoundTrips(s[1], s[2])

C20_Witness ==
  /\ origin = <<"base", 4, 0>>
  /\ pc = "decoded"
  /\ class.interfaces = <<6, 5>>
  /\ Vec_serialize("CPIndex", class.interfaces) = <<0, 2, 0, 6, 0, 5>>
  /\ Vec_deserialize("CPIndex", <<0, 2, 0, 6, 0, 5>>, 0) = Ok(<<6, 5>>, 6)
  /\ ~Vec_deserialize("CPIndex", <<0, 2, 0, 6, 0>>, 0).ok
  /\ <<"CPIndex", <<6, 7>>>> \in ListsOf(class)

\* C21: the resolution pass changes nothing but the info of an attribute
\* that resolves: the pool, the name indices, the number and order of the
\* attributes of every list, the header, the flags, the class references and
\* the interfaces stay as they are; resolving a typed attribute again
\* changes nothing and succeeds.
\* the attributes nested in a "Code" body, as the body holds them
BodyAttributes(blob) ==
  LET tableAt == 8 + U32At(blob, 4)
  IN  Vec_deserialize("Attribute", blob, tableAt + 2 + 8 * U16At(blob, tableAt)).val

RECURSIVE InfoOnly(_, _, _)
InfoOnly(before, after, cp) ==
  /\ after.name_index = before.name_index
  /\ \/ after.info = before.info
     \/ /\ Opaque(before) /\ ~Opaque(after)
        /\ Attribute_resolve(before, cp) = Resolved("ok", after)
        /\ after.info.kind = "Code" =>
             LET held == BodyAttributes(before.info.blob)
             IN  /\ Len(NestedOf(after)) = Len(held)
                 /\ \A j \in DOMAIN held : InfoOnly(held[j], NestedOf(after)[j], cp)

Shell(m) == [access_flags |-> m.access_flags, name_index |-> m.name_index,
             descriptor_index |-> m.descriptor_index, count |-> Len(m.attributes)]
Outside(c) ==
  [magic_bytes |-> c.magic_bytes, minor_version |-> c.minor_version,
   major_version |-> c.major_version, constant_pool |-> c.constant_pool,
   access_flags |-> c.access_flags, this_class |-> c.this_class,
   super_class |-> c.super_class, interfaces |-> c.interfaces,
   fields |-> [i \in DOMAIN c.fields |-> Shell(c.fields[i])],
   methods |-> [i \in DOMAIN c.methods |-> Shell(c.methods[i])],
   count |-> Len(c.attributes)]

RECURSIVE TypedIn(_)
TypedIn(a) ==
  IF Opaque(a) THEN {}
  ELSE {a} \cup (IF a.info.kind = "Code"
                  THEN UNION {TypedIn(NestedOf(a)[j]) : j \in DOMAIN NestedOf(a)}
                  ELSE {})

ResolutionFrame ==
  pc = "resolve" /\ pc' \in {"resolve", "decoded"} =>
    /\ Outside(class') = Outside(class)
    /\ \A pl \in StoredPlaces(class) :
         /\ InfoOnly(AttributeAt(class, pl), AttributeAt(class', pl), class.constant_pool)
         /\ \A a \in TypedIn(AttributeAt(class', pl)) :
              Attribute_resolve(a, class'.constant_pool) = Resolved("ok", a)
    /\ Cardinality({pl \in StoredPlaces(class) :
                      AttributeAt(class', pl) # AttributeAt(class, pl)}) <= 1

C21_Frame == [][ResolutionFrame]_vars

C21_Witness ==
  /\ origin = <<"base", 19, 0>>
  /\ pc = "resolve"
  /\ next_attr = 5
  /\ Outside(class) = Outside(Structure.val)
  /\ class.methods[1].attributes[1].info.kind = "Code"
  /\ Len(NestedOf(class.methods[1].attributes[1])) = 3
  /\ NestedOf(class.methods[1].attributes[1])[2].info = [kind |-> "Any", blob |-> <<1, 2, 3>>]
  /\ class.methods[2].attributes[1].info.kind = "Exceptions"
  /\ Opaque(class.methods[2].attributes[2])

\* C22: while a pool is decoded the index counter stays within 16 bits for
\* every count and every sequence of entries: the width of a Long at index
\* 65534 neither overflows nor wraps it, no entry is inserted under index 0,
\* and the decode ends with a pool or an error, not with an abort.
C22_CounterInRange ==
  /\ loop.at # "panic"
  /\ ~loop.wrapped
  /\ loop.inserted > 0 => loop.key # 0

\* what does hold: no entry is inserted under index 0, and whenever the
\* counter does not pass 65535 the stepwise decode ends as the whole decode
NoZeroKey == loop.inserted > 0 => loop.key # 0
SmallPools == {6, 7, 8, 9, 10}
StepwiseAgrees ==
  origin[2] \in SmallPools /\ loop.at \in {"ok", "err"} =>
    /\ ConstantPool_deserialize(bytes, 0).ok = (loop.at = "ok")
    /\ ConstantPool_deserialize(bytes, 0).pos = loop.pos
    /\ loop.at = "ok" =>
         Cardinality(DOMAIN ConstantPool_deserialize(bytes, 0).val) = loop.inserted

\* C23: every length prefix written for a decoded class equals the number
\* of elements or bytes written after it: the 16-bit count of a list, the
\* 16-bit length of a Utf8 entry (also when invalid bytes were replaced by
\* longer sequences), the 32-bit code length and the 32-bit attribute length.
Utf8Exact(e) ==
  LET w == ConstantPoolEntry_serialize(e)
  IN  U16At(w, 1) = Len(w) - 3 /\ Len(w) - 3 = Len(e.raw)

RECURSIVE PrefixesExact(_)
PrefixesExact(a) ==
  LET w == Attribute_serialize(a)
  IN  /\ U32At(w, 2) = Len(w) - 6
      /\ a.info.kind = "Code" =>
           /\ U32At(w, 10) = Len(a.info.code)
           /\ \A j \in DOMAIN NestedOf(a) : PrefixesExact(NestedOf(a)[j])

C23_PrefixesExact ==
  pc \in {"encoded", "done"} =>
    /\ \A k \in DOMAIN class.constant_pool :
         class.constant_pool[k].tag = 1 => Utf8Exact(class.constant_pool[k])
    /\ \A s \in ListsOf(class) : U16At(Vec_serialize(s[1], s[2]), 0) = Len(s[2])
    /\ \A pl \in StoredPlaces(class) : PrefixesExact(AttributeAt(class, pl))

\* what does hold: every prefix but the Utf8 length is exact, and the Utf8
\* length is exact for every text of at most 65535 bytes
PrefixesExactButLongText ==
  pc \in {"encoded", "done"} =>
    /\ \A k \in DOMAIN class.constant_pool :
         class.constant_pool[k].tag = 1 /\ Len(class.constant_pool[k].raw) <= U16_MAX
           => Utf8Exact(class.constant_pool[k])
    /\ \A s \in ListsOf(class) : U16At(Vec_serialize(s[1], s[2]), 0) = Len(s[2])
    /\ \A pl \in StoredPlaces(class) : PrefixesExact(AttributeAt(class, pl))

\* C24: a "Code" attribute whose exception table has an entry with catch
\* type 0 does not make the class decode fail: the attribute stays the opaque
\* blob it was, its nested attributes are not resolved, and the decode
\* returns the class.
\* the exception table held in a "Code" body has an entry with catch type 0
HasCatchAll(blob) ==
  LET tableAt == 8 + U32At(blob, 4)
  IN  /\ tableAt + 2 + 8 * U16At(blob, tableAt) <= Len(blob)
      /\ \E i \in 0..(U16At(blob, tableAt) - 1) : U16At(blob, tableAt + 8 + 8 * i) = 0

CatchAllCode(a, cp) ==
  /\ a.name_index \in DOMAIN cp
  /\ cp[a.name_index] = Entry(1, <<>>, NAME_Code)
  /\ Opaque(a)
  /\ HasCatchAll(a.info.blob)

\* every attribute of a list or nested in it, at any depth
RECURSIVE Within(_)
Within(attrs) ==
  UNION {{attrs[j]} \cup (IF attrs[j].info.kind = "Code" THEN Within(NestedOf(attrs[j])) ELSE {})
           : j \in DOMAIN attrs}
Everywhere(c) == UNION {Within(<<AttributeAt(c, pl)>>) : pl \in StoredPlaces(c)}

C24_CatchAllStaysOpaque ==
  Structure.ok /\ pc # "start" =>
    LET s == Structure.val
    IN  /\ (\E pl \in StoredPlaces(s) : CatchAllCode(AttributeAt(s, pl), s.constant_pool))
             => pc \in {"resolve", "decoded", "encoded", "done"}
        /\ pc \in {"decoded", "encoded", "done"} =>
             /\ \A pl \in StoredPlaces(s) :
                  CatchAllCode(AttributeAt(s, pl), s.constant_pool)
                    => AttributeAt(class, pl) = AttributeAt(s, pl)
             /\ \A a \in Everywhere(class) :
                  a.info.kind = "Code" =>
                    /\ \A i \in DOMAIN a.info.exception_table :
                         a.info.exception_table[i].catch_type # 0
                    /\ \A j \in DOMAIN NestedOf(a) :
                         CatchAllCode([NestedOf(a)[j] EXCEPT !.info = [kind |-> "Any", blob |->
                                         AttributeInfo_serialize(NestedOf(a)[j].info)]],
                                      class.constant_pool)
                           => Opaque(NestedOf(a)[j])

C24_Witness ==
  /\ origin = <<"base", 4, 0>>
  /\ pc = "decoded"
  /\ CatchAllCode(class.methods[1].attributes[1], class.constant_pool)
  /\ class.methods[1].attributes[1] = Structure.val.methods[1].attributes[1]
  /\ ~Opaque(class.methods[1].attributes[3])

C24_NestedWitness ==
  /\ origin = <<"base", 20, 0>>
  /\ pc = "decoded"
  /\ ~Opaque(class.methods[1].attributes[1])
  /\ CatchAllCode(NestedOf(class.methods[1].attributes[1])[1], class.constant_pool)
  /\ ~Opaque(NestedOf(class.methods[1].attributes[1])[2])

\* C25: resolution loses no payload bytes: the typed info of a resolved
\* attribute serializes to exactly the bytes of the blob it was resolved
\* from, so a blob with bytes left over after the typed fields is not
\* replaced by a typed variant.
C25_NoPayloadLost ==
  pc \in {"decoded", "encoded", "done"} =>
    \A pl \in StoredPlaces(class) :
      ~Opaque(AttributeAt(class, pl)) =>
        AttributeInfo_serialize(AttributeAt(class, pl).info)
          = AttributeAt(Structure.val, pl).info.blob

\* what does hold: a typed "ConstantValue" or "Exceptions" serializes to the
\* leading bytes of its blob, the bytes after them are dropped
TypedIsPrefix ==
  pc \in {"decoded", "encoded", "done"} =>
    \A pl \in StoredPlaces(class) :
      AttributeAt(class, pl).info.kind \in {"ConstantValue", "Exceptions"} =>
        LET w == AttributeInfo_serialize(AttributeAt(class, pl).info)
            blob == AttributeAt(Structure.val, pl).info.blob
        IN  Len(w) <= Len(blob) /\ w = SubSeq(blob, 1, Len(w))

LeftoverDropped ==
  /\ origin = <<"base", 4, 0>>
  /\ pc = "decoded"
  /\ Structure.val.attributes[3].info.blob = <<0, 6, 9>>
  /\ class.attributes[3].info = [kind |-> "ConstantValue", index |-> 6]
  /\ AttributeInfo_serialize(class.attributes[3].info) = <<0, 6>>

\* C26: the failure of a nested attribute does not go upwards: when a
\* "Code" body decodes and a nested attribute fails to resolve (unknown name,
\* malformed body), the enclosing attribute is the typed Code, the failing
\* nested attribute is the blob it was and the others are resolved; when the
\* body does not decode, the enclosing attribute is unchanged.
\* the body of a "Code", decoded up to its list of nested attributes
BodyTable(blob) == Vec_deserialize("ExceptionTableEntry", blob, 8 + U32At(blob, 4))
BodyNested(blob) == Vec_deserialize("Attribute", blob, BodyTable(blob).pos)
BodyDecodes(blob) ==
  /\ 8 + U32At(blob, 4) <= Len(blob)
  /\ BodyTable(blob).ok
  /\ BodyNested(blob).ok

NamedCode(a, cp) ==
  a.name_index \in DOMAIN cp /\ cp[a.name_index] = Entry(1, <<>>, NAME_Code)

RECURSIVE Contained(_, _, _)
Contained(before, after, cp) ==
  NamedCode(before, cp) =>
    IF BodyDecodes(before.info.blob)
    THEN LET held == BodyNested(before.info.blob).val
         IN  /\ after.info.kind = "Code"
             /\ Len(NestedOf(after)) = Len(held)
             /\ \A j \in DOMAIN held :
                  LET r == Attribute_resolve(held[j], cp)
                  IN  /\ r.status # "panic"
                      /\ r.status = "err" => NestedOf(after)[j] = held[j]
                      /\ r.status = "ok" => ~Opaque(NestedOf(after)[j])
                      /\ Contained(held[j], NestedOf(after)[j], cp)
    ELSE after = before

C26_NestedFailureContained ==
  pc \in {"decoded", "encoded", "done"} =>
    \A pl \in StoredPlaces(class) :
      Contained(AttributeAt(Structure.val, pl), AttributeAt(class, pl), class.constant_pool)

C26_Witness ==
  /\ origin = <<"base", 5, 0>>
  /\ pc = "decoded"
  /\ class.methods[1].attributes[1].info.kind = "Code"
  /\ NestedOf(class.methods[1].attributes[1])[1] = [name_index |-> 2, info |-> AnyInfo(<<0>>)]
  /\ NestedOf(class.methods[1].attributes[1])[2] = [name_index |-> 7, info |-> AnyInfo(<<1, 2, 3>>)]
  /\ NestedOf(class.methods[1].attributes[1])[3].info = [kind |-> "ConstantValue", index |-> 6]
  /\ ~BodyDecodes(Structure.val.methods[1].attributes[2].info.blob)
  /\ class.methods[1].attributes[2] = Structure.val.methods[1].attributes[2]

====
